---- MODULE Spec2Model ----
(***************************************************************************)
(* Job orchestration of the paper-summary extension.                       *)
(*                                                                         *)
(* Orchestrator: the background service worker (its code is the script     *)
(* carried in src/README.md, lines 67-397).  Delegate: the offscreen       *)
(* document (src/extension/offscreen.js).  The two share no memory: they   *)
(* exchange chrome.runtime messages, modelled as one FIFO channel per      *)
(* direction.  The response to a delegate message is handed to the waiting *)
(* run in the step that sends it, once nothing sent earlier is still in    *)
(* flight to the delegate.  chrome.storage.local is a FIFO queue of        *)
(* operations (set / remove / get) applied one at a time; a handler that   *)
(* awaits an operation resumes when it is applied.  Every action is one    *)
(* run of JavaScript between two awaits.                                   *)
(***************************************************************************)
EXTENDS Integers, Sequences, FiniteSets, TLC

\* ------------------------------------------------------------- bounds
MaxJobs == 2          \* start requests the orchestrator accepts (job ids 1..MaxJobs)
MaxRuns == 2          \* pipeline runs the delegate starts
MaxRestarts == 1      \* restarts of the service worker
MaxEvents == 2        \* accepted user requests and restarts, together

\* ------------------------------------------------------------- program constants
LOG_LIMIT == 200

JobIds == 1..MaxJobs
RunIds == 1..MaxRuns

DEFAULT_CANCEL_MESSAGE == "cancelled"          \* "ユーザーが処理を中断しました"
MsgMissingFields == "missingFields"            \* "必須項目が不足しています"
MsgAlreadyRunning == "alreadyRunning"          \* "別の処理が進行中です"
MsgNoActiveJob == "noActiveJob"                \* "進行中の処理はありません"
MsgAlreadyRequested == "alreadyRequested"      \* "既に中断要求を受け付けています"
MsgNoOffscreen == "offscreenUnavailable"       \* ensureOffscreenDocument / createDocument failure
MsgResumeImpossible == "resumeImpossible"      \* "サービスワーカー再起動時に再開に必要な情報が不足..."
MsgTypeError == "typeError"                    \* property read of null currentJob
MsgPortClosed == "portClosed"                  \* sendMessage rejected: receiver went away
MsgBusy == "busy"                              \* delegate: "別のジョブが実行中です"
MsgSameJob == "sameJob"                        \* delegate: "同じジョブが実行中です"
MsgCancelNoJob == "cancelNoJob"                \* delegate: "対象のジョブが見つかりません"

\* ------------------------------------------------------------- values
NoResult == [title |-> "", summaryLength |-> 0, scrapboxUrl |-> ""]
Undefined == [title |-> "undefined", summaryLength |-> 0, scrapboxUrl |-> ""]
TheResult == [title |-> "T", summaryLength |-> 1, scrapboxUrl |-> "U"]

\* The absent job (JavaScript null).  id 0 is no job id.
NoJob ==
    [id |-> 0, status |-> "none", logs |-> <<>>, finished |-> FALSE,
     error |-> "null", result |-> NoResult, cancelRequested |-> FALSE,
     cancelReason |-> "null", ctx |-> 0, apiKey |-> FALSE]

\* The record handleStartMessage creates.  ctx stands for the request's page
\* URL, PDF URL, project, base and model (one value per request); apiKey is
\* TRUE while context.apiKey holds the credential and FALSE once it is null.
NewJob(j) ==
    [id |-> j, status |-> "running", logs |-> <<>>, finished |-> FALSE,
     error |-> "null", result |-> NoResult, cancelRequested |-> FALSE,
     cancelReason |-> "null", ctx |-> j, apiKey |-> TRUE]

Terminal == {"success", "error", "aborted"}

Info(t) == [kind |-> "info", text |-> t]
Err(t) == [kind |-> "error", text |-> t]       \* `エラー: ${t}`

PushLogPrepends(job, entry) ==
    LET l == <<entry>> \o job.logs
    IN  [job EXCEPT !.logs = IF Len(l) > LOG_LIMIT THEN Tail(l) ELSE l]

\* pushLog's mutation of the job: append, then drop the oldest past LOG_LIMIT.
PushLogJob(job, entry) ==
    LET l == Append(job.logs, entry)
    IN  [job EXCEPT !.logs = IF Len(l) > LOG_LIMIT THEN Tail(l) ELSE l]

\* markJobStatus's mutation of the job.  res is extra.result (Undefined when
\* the caller gives none), error is extra.error || null.
MarkJobKeepsKey(job, status, error, res) ==
    [job EXCEPT !.status = status, !.finished = TRUE, !.error = error,
                !.result = IF res # Undefined THEN res
                           ELSE IF status # "success" THEN NoResult ELSE @,
                !.cancelRequested = IF status # "running" THEN FALSE ELSE @,
                !.cancelReason = IF status # "running" THEN "null" ELSE @]

MarkJobKeepsResult(job, status, error, res) ==
    [job EXCEPT !.status = status, !.finished = TRUE, !.error = error,
                !.result = IF res # Undefined THEN res ELSE TheResult,
                !.apiKey = IF status # "running" THEN FALSE ELSE @,
                !.cancelRequested = IF status # "running" THEN FALSE ELSE @,
                !.cancelReason = IF status # "running" THEN "null" ELSE @]

MarkJob(job, status, error, res) ==
    [job EXCEPT !.status = status, !.finished = TRUE, !.error = error,
                !.result = IF res # Undefined THEN res
                           ELSE IF status # "success" THEN NoResult ELSE @,
                !.apiKey = IF status # "running" THEN FALSE ELSE @,
                !.cancelRequested = IF status # "running" THEN FALSE ELSE @,
                !.cancelReason = IF status # "running" THEN "null" ELSE @]

\* ------------------------------------------------------------- state
VARIABLES
    bgJob,      \* orchestrator: currentJob (memory of the service worker)
    store,      \* chrome.storage.local[JOB_STORAGE_KEY]
    stq,        \* storage operations called and not yet applied, oldest first
    h,          \* orchestrator: its suspended handlers, by tag
    nextId,     \* job ids handed out so far (crypto.randomUUID)
    restarts,   \* restarts of the service worker so far
    events,     \* accepted user requests and restarts so far
    hasDoc,     \* the offscreen document exists
    dJob,       \* delegate: currentJob
    dCancel,    \* delegate: cancelRequested
    runs,       \* delegate: the runSummaryJob calls, by run id
    nextRun,    \* runs started so far
    toBg,       \* messages and responses in flight to the orchestrator
    toOff,      \* messages and responses in flight to the delegate
    pdf         \* a function of the delegate examined on its own (NoPdf: none)

vars == <<bgJob, store, stq, h, nextId, restarts, events, hasDoc, dJob, dCancel,
          runs, nextRun, toBg, toOff, pdf>>

bgVars == <<bgJob, store, stq, h, nextId, restarts, events>>
offVars == <<hasDoc, dJob, dCancel, runs, nextRun>>

\* No resolution is examined: the state of pdf in every run of the extension.
NoPdf == [pc |-> "none"]

\* Handler tags: one start handler per job id, one handler of each other kind.
NoTag == <<"none", 0>>
CancelTag == <<"cancel", 0>>
LogTag == <<"log", 0>>
ResultTag == <<"result", 0>>
LoadTag == <<"load", 0>>
StartTag(j) == <<"start", j>>
Tags == {StartTag(j) : j \in JobIds} \cup {CancelTag, LogTag, ResultTag, LoadTag}

\* A handler: where it waits (pc), its local jobId, the run whose message it
\* answers, and the status / error message it carries.  A handler that has
\* answered the popup stays at pc "replied" with its answer (status ok / fail,
\* err the error text).
Idle == [pc |-> "idle", job |-> 0, run |-> 0, status |-> "", err |-> "", awaited |-> FALSE]
At(pc, j, r, s, e, aw) ==
    [pc |-> pc, job |-> j, run |-> r, status |-> s, err |-> e, awaited |-> aw]

Replied(j, ok, err) == At("replied", j, 0, IF ok THEN "ok" ELSE "fail", err, FALSE)

StOp(op, val, tag) == [op |-> op, val |-> val, tag |-> tag]

\* Messages.  One record shape for every message and response.
Msg(type, j, r) ==
    [type |-> type, job |-> j, run |-> r, entry |-> Info(""), status |-> "",
     ctx |-> 0, apiKey |-> FALSE, resume |-> FALSE, awaited |-> TRUE,
     tag |-> NoTag, ep |-> 0, ok |-> TRUE, err |-> ""]

NoDJob == [id |-> 0, ctx |-> 0, apiKey |-> FALSE]

\* A runSummaryJob call: where it waits (pc), uploadedFileId set (file), the
\* error its catch block holds (err), the exception leaving it (exc), and what
\* it has done so far: network calls attempted and outcomes reported.  early
\* is history, read by no action: the orchestrator had accepted a cancel
\* request for the job when the delegate began the run.
NoRun ==
    [job |-> 0, ctx |-> 0, pc |-> "none", file |-> FALSE, err |-> "", exc |-> "",
     calls |-> <<>>, reports |-> <<>>, early |-> FALSE]

Init ==
    /\ bgJob = NoJob
    /\ store = NoJob
    /\ stq = <<>>
    /\ h = [t \in Tags |-> Idle]
    /\ nextId = 0
    /\ restarts = 0
    /\ events = 0
    /\ hasDoc = FALSE
    /\ dJob = NoDJob
    /\ dCancel = FALSE
    /\ runs = [r \in RunIds |-> NoRun]
    /\ nextRun = 0
    /\ toBg = <<>>
    /\ toOff = <<>>
    /\ pdf = NoPdf

\* ============================================================= delegate
LogMsg(r, rec, entry) == [Msg("log", rec.job, r) EXCEPT !.entry = entry]
ResMsg(r, rec, status, err, aw) ==
    [Msg("result", rec.job, r) EXCEPT !.status = status, !.err = err, !.awaited = aw]
RespTo(m, ok, err) ==
    [Msg("resp", m.job, 0) EXCEPT !.tag = m.tag, !.ep = m.ep, !.ok = ok, !.err = err]

\* The outcome of one run of delegate code: the run's record, the messages
\* it sent, and whether runSummaryJob settled (the job slot is then freed).
Step(rec, out, end) == [run |-> rec, out |-> out, end |-> end]

\* runSummaryJob settles; the .catch of handleStartMessage reports a pending
\* exception without awaiting the send.
Finish(r, rec) ==
    IF rec.exc # ""
    THEN Step([rec EXCEPT !.pc = "done", !.reports = Append(@, "error")],
              <<ResMsg(r, rec, "error", rec.exc, FALSE)>>, TRUE)
    ELSE Step([rec EXCEPT !.pc = "done"], <<>>, TRUE)

ThrowOutsideSilent(r, rec, msg) == Step([rec EXCEPT !.exc = msg, !.pc = "done"], <<>>, TRUE)

\* An exception thrown before the try block.
ThrowOutside(r, rec, msg) == Finish(r, [rec EXCEPT !.exc = msg])

\* The catch block: its first statement is the pushLog.
Catch(r, rec, msg, cancelled) ==
    Step([rec EXCEPT !.err = msg, !.pc = IF cancelled THEN "cabortlog" ELSE "cerrlog"],
         <<LogMsg(r, rec, IF cancelled THEN Info(msg) ELSE Err(msg))>>, FALSE)

FinallyAlwaysDeletes(r, rec) ==
    Step([rec EXCEPT !.pc = "netDelete", !.calls = Append(@, "delete")], <<>>, FALSE)
FinallyNoDelete(r, rec) == Finish(r, rec)

\* The finally block.
Finally(r, rec) ==
    IF rec.file
    THEN Step([rec EXCEPT !.pc = "netDelete", !.calls = Append(@, "delete")], <<>>, FALSE)
    ELSE Finish(r, rec)

NetCall(rec, pc, call) ==
    Step([rec EXCEPT !.pc = pc, !.calls = Append(@, call)], <<>>, FALSE)

SendLog(r, rec, pc, text) ==
    Step([rec EXCEPT !.pc = pc], <<LogMsg(r, rec, Info(text))>>, FALSE)

NeverCancelled(flag) == FALSE

\* throwIfCancelled reads the delegate's flag.
Cancelled(flag) == flag

\* PDF resolution after the first check: an override or a URL rule needs no
\* network ("local"), an unusable override throws ("localFail"), otherwise the
\* page is fetched ("fetch").
Hows == {"local", "localFail", "fetch"}

Resolve(r, rec, how) ==
    IF Cancelled(dCancel) THEN ThrowOutside(r, rec, DEFAULT_CANCEL_MESSAGE)
    ELSE IF how = "local" THEN SendLog(r, rec, "log1", "resolved")
    ELSE IF how = "localFail" THEN ThrowOutside(r, rec, "resolveFailed")
    ELSE NetCall(rec, "netPage", "page")

\* The code that runs when the awaited send at rec.pc is answered.
OnAck(r, rec) ==
    CASE rec.pc = "log1" ->
            IF Cancelled(dCancel) THEN ThrowOutside(r, rec, DEFAULT_CANCEL_MESSAGE)
            ELSE NetCall(rec, "netDownload", "download")
      [] rec.pc = "log2" ->
            IF Cancelled(dCancel) THEN ThrowOutside(r, rec, DEFAULT_CANCEL_MESSAGE)
            ELSE NetCall(rec, "netUpload", "upload")
      [] rec.pc = "log3" ->
            IF Cancelled(dCancel) THEN Catch(r, rec, DEFAULT_CANCEL_MESSAGE, TRUE)
            ELSE NetCall(rec, "netTitle", "title")
      [] rec.pc = "log4" ->
            IF Cancelled(dCancel) THEN Catch(r, rec, DEFAULT_CANCEL_MESSAGE, TRUE)
            ELSE NetCall(rec, "netSummary", "summary")
      [] rec.pc = "log5" ->
            IF Cancelled(dCancel) THEN Catch(r, rec, DEFAULT_CANCEL_MESSAGE, TRUE)
            ELSE SendLog(r, rec, "log6", "opening")
      [] rec.pc = "log6" ->
            Step([rec EXCEPT !.pc = "res", !.reports = Append(@, "success")],
                 <<ResMsg(r, rec, "success", "", TRUE)>>, FALSE)
      [] rec.pc = "res" -> SendLog(r, rec, "log7", "done")
      [] rec.pc = "log7" -> Finally(r, rec)
      [] rec.pc = "cerrlog" ->
            Step([rec EXCEPT !.pc = "cres", !.reports = Append(@, "error")],
                 <<ResMsg(r, rec, "error", rec.err, TRUE)>>, FALSE)
      [] rec.pc = "cabortlog" ->
            Step([rec EXCEPT !.pc = "cres", !.reports = Append(@, "aborted")],
                 <<ResMsg(r, rec, "aborted", rec.err, TRUE)>>, FALSE)
      [] rec.pc = "cres" -> Finally(r, rec)
      [] rec.pc = "logdel" -> Finish(r, rec)

\* The code that runs when the awaited send at rec.pc is rejected.
OnReject(r, rec, msg) ==
    CASE rec.pc \in {"log0", "log1", "log2"} -> ThrowOutside(r, rec, msg)
      [] rec.pc \in {"log3", "log4", "log5", "log6", "res", "log7"} ->
            Catch(r, rec, msg, FALSE)
      [] rec.pc \in {"cerrlog", "cabortlog", "cres"} ->
            Finally(r, [rec EXCEPT !.exc = msg])
      [] rec.pc = "logdel" -> Finish(r, rec)

\* The code that runs when the network call at rec.pc returns.
OnNet(r, rec, ok) ==
    CASE rec.pc = "netPage" ->
            IF ok THEN SendLog(r, rec, "log1", "resolved")
            ELSE ThrowOutside(r, rec, "resolveFailed")
      [] rec.pc = "netDownload" ->
            IF ok THEN SendLog(r, rec, "log2", "downloaded")
            ELSE ThrowOutside(r, rec, "downloadFailed")
      [] rec.pc = "netUpload" ->
            IF ok THEN SendLog(r, [rec EXCEPT !.file = TRUE], "log3", "uploaded")
            ELSE Catch(r, rec, "uploadFailed", FALSE)
      [] rec.pc = "netTitle" ->
            IF ok THEN SendLog(r, rec, "log4", "title")
            ELSE Catch(r, rec, "titleFailed", FALSE)
      [] rec.pc = "netSummary" ->
            IF ok THEN SendLog(r, rec, "log5", "summary")
            ELSE Catch(r, rec, "summaryFailed", FALSE)
      [] rec.pc = "netDelete" -> SendLog(r, rec, "logdel", "deleted")

NetPcs == {"netPage", "netDownload", "netUpload", "netTitle", "netSummary", "netDelete"}

\* The code of run r that runs when its awaited send is answered (ok) or
\* rejected.
RunContinue(r, rec, ok, err, how) ==
    IF ~ok THEN OnReject(r, rec, err)
    ELSE IF rec.pc = "log0" THEN Resolve(r, rec, how)
    ELSE OnAck(r, rec)

ApplyKeepsCancel(r, st, q) ==
    /\ runs' = [runs EXCEPT ![r] = st.run]
    /\ toBg' = q \o st.out
    /\ IF st.end
       THEN dJob' = NoDJob /\ dCancel' = dCancel
       ELSE UNCHANGED <<dJob, dCancel>>

\* Apply the outcome of a run's step; q is the channel to the orchestrator.
Apply(r, st, q) ==
    /\ runs' = [runs EXCEPT ![r] = st.run]
    /\ toBg' = q \o st.out
    /\ IF st.end
       THEN dJob' = NoDJob /\ dCancel' = FALSE
       ELSE UNCHANGED <<dJob, dCancel>>

\* The orchestrator answers the message of run r (aw: the run awaits it).
AckRun(q, r, aw, how) ==
    IF aw
    THEN /\ toOff = <<>>
         /\ how = "local" \/ runs[r].pc = "log0"
         /\ Apply(r, RunContinue(r, runs[r], TRUE, "", how), q)
    ELSE /\ how = "local"
         /\ toBg' = q
         /\ UNCHANGED <<runs, dJob, dCancel>>

\* ============================================================= orchestrator
Fields == {"pageUrl", "project", "scrapboxBase", "model", "apiKey"}
FullPayload == [f \in Fields |-> TRUE]
\* The payloads tried: complete, and complete but for one field.
Payloads == {FullPayload} \cup {[FullPayload EXCEPT ![f] = FALSE] : f \in Fields}

HeadIs(t, pc) == stq # <<>> /\ Head(stq).tag = t /\ h[t].pc = pc

AppliedKeepsOnRemove(op) == IF op.op = "set" THEN op.val ELSE store

\* What a storage operation leaves under JOB_STORAGE_KEY.
Applied(op) == IF op.op = "set" THEN op.val ELSE IF op.op = "remove" THEN NoJob ELSE store

\* An operation whose caller is gone (clear's remove, or a handler lost in a
\* restart) is applied all the same.
StorageApply ==
    /\ stq # <<>> /\ Head(stq).tag = NoTag
    /\ store' = Applied(Head(stq))
    /\ stq' = Tail(stq)
    /\ UNCHANGED <<bgJob, h, nextId, restarts, events, offVars, toBg, toOff, pdf>>

\* --- start-summary
StartChecksKeyOnly(job, p) ==
    IF ~p["apiKey"] THEN MsgMissingFields
    ELSE IF job.id # 0 /\ job.status = "running" THEN MsgAlreadyRunning
    ELSE "accept"

StartAcceptsAlways(job, p) ==
    IF \E f \in Fields : ~p[f] THEN MsgMissingFields ELSE "accept"

\* The two early returns of handleStartMessage.
StartDecision(job, p) ==
    IF \E f \in Fields : ~p[f] THEN MsgMissingFields
    ELSE IF job.id # 0 /\ job.status = "running" THEN MsgAlreadyRunning
    ELSE "accept"

\* A rejected request returns before it touches anything.
ReqStart(p) ==
    /\ IF StartDecision(bgJob, p) # "accept"
       THEN UNCHANGED <<bgJob, stq, h, nextId, events>>
       ELSE /\ nextId < MaxJobs /\ events < MaxEvents
            /\ bgJob' = NewJob(nextId + 1)
            /\ stq' = Append(stq, StOp("set", bgJob', StartTag(nextId + 1)))
            /\ h' = [h EXCEPT ![StartTag(nextId + 1)] =
                                  At("commit", nextId + 1, 0, "", "", FALSE)]
            /\ nextId' = nextId + 1
            /\ events' = events + 1
    /\ UNCHANGED <<store, restarts, offVars, toBg, toOff, pdf>>

StartFailNoRecord(j, msg, q) ==
    /\ h' = [h EXCEPT ![StartTag(j)] = Replied(j, FALSE, msg)]
    /\ bgJob' = bgJob
    /\ stq' = q

\* The catch block of handleStartMessage, entered with the storage queue q.
StartFail(j, msg, q) ==
    IF bgJob.id = j
    THEN /\ bgJob' = PushLogJob(bgJob, Err(msg))
         /\ stq' = Append(q, StOp("set", bgJob', StartTag(j)))
         /\ h' = [h EXCEPT ![StartTag(j)] = At("errlog", j, 0, "", msg, FALSE)]
    ELSE /\ h' = [h EXCEPT ![StartTag(j)] = Replied(j, FALSE, msg)]
         /\ bgJob' = bgJob
         /\ stq' = q

StartAfterCommit(j) ==
    /\ HeadIs(StartTag(j), "commit")
    /\ store' = Applied(Head(stq))
    /\ IF bgJob.id = j
       THEN /\ bgJob' = PushLogJob(bgJob, Info("started"))
            /\ stq' = Append(Tail(stq), StOp("set", bgJob', StartTag(j)))
            /\ h' = [h EXCEPT ![StartTag(j)].pc = "log"]
       ELSE /\ bgJob' = bgJob
            /\ stq' = Tail(stq)
            /\ h' = [h EXCEPT ![StartTag(j)].pc = "ensure"]
    /\ UNCHANGED <<nextId, restarts, events, offVars, toBg, toOff, pdf>>

StartAfterLog(j) ==
    /\ HeadIs(StartTag(j), "log")
    /\ store' = Applied(Head(stq))
    /\ stq' = Tail(stq)
    /\ h' = [h EXCEPT ![StartTag(j)].pc = "ensure"]
    /\ UNCHANGED <<bgJob, nextId, restarts, events, offVars, toBg, toOff, pdf>>

\* The context put in the offscreen-start message: currentJob.context, read
\* when the message is built.
StartContext(j, job) == [ctx |-> job.ctx, apiKey |-> job.apiKey]

\* ensureOffscreenDocument returned (created TRUE) or threw (created FALSE,
\* possible only while no document exists), then sendToOffscreen.
StartEnsure(j, created) ==
    /\ h[StartTag(j)].pc = "ensure"
    /\ created \/ ~hasDoc
    /\ IF ~created
       THEN /\ StartFail(j, MsgNoOffscreen, stq)
            /\ UNCHANGED <<hasDoc, toOff>>
       ELSE /\ hasDoc' = TRUE
            /\ IF bgJob.id = 0
               THEN StartFail(j, MsgTypeError, stq) /\ toOff' = toOff
               ELSE /\ toOff' = Append(toOff,
                          [Msg("start", j, 0) EXCEPT
                              !.ctx = StartContext(j, bgJob).ctx,
                              !.apiKey = StartContext(j, bgJob).apiKey,
                              !.tag = StartTag(j), !.ep = restarts])
                    /\ h' = [h EXCEPT ![StartTag(j)].pc = "send"]
                    /\ UNCHANGED <<bgJob, stq>>
    /\ UNCHANGED <<store, nextId, restarts, events, dJob, dCancel, runs, nextRun, toBg, pdf>>

RespFor(t) ==
    /\ toBg # <<>>
    /\ Head(toBg).type = "resp" /\ Head(toBg).tag = t /\ Head(toBg).ep = restarts
    /\ h[t].pc = "send"

StartAfterSend(j) ==
    /\ RespFor(StartTag(j))
    /\ toBg' = Tail(toBg)
    /\ IF Head(toBg).ok
       THEN /\ h' = [h EXCEPT ![StartTag(j)] = Replied(j, TRUE, "")]
            /\ UNCHANGED <<bgJob, stq>>
       ELSE StartFail(j, Head(toBg).err, stq)
    /\ UNCHANGED <<store, nextId, restarts, events, offVars, toOff, pdf>>

StartAfterErrLog(j) ==
    /\ HeadIs(StartTag(j), "errlog")
    /\ store' = Applied(Head(stq))
    /\ IF bgJob.id = j
       THEN /\ bgJob' = MarkJob(bgJob, "error", h[StartTag(j)].err, Undefined)
            /\ stq' = Append(Tail(stq), StOp("set", bgJob', StartTag(j)))
            /\ h' = [h EXCEPT ![StartTag(j)].pc = "errmark"]
       ELSE /\ h' = [h EXCEPT ![StartTag(j)] = Replied(j, FALSE, h[StartTag(j)].err)]
            /\ bgJob' = bgJob
            /\ stq' = Tail(stq)
    /\ UNCHANGED <<nextId, restarts, events, offVars, toBg, toOff, pdf>>

StartAfterErrMark(j) ==
    /\ HeadIs(StartTag(j), "errmark")
    /\ store' = Applied(Head(stq))
    /\ stq' = Tail(stq)
    /\ h' = [h EXCEPT ![StartTag(j)] = Replied(j, FALSE, h[StartTag(j)].err)]
    /\ UNCHANGED <<bgJob, nextId, restarts, events, offVars, toBg, toOff, pdf>>

\* --- cancel-summary
CancelAcceptsTwice(job) ==
    IF job.id = 0 \/ job.status # "running" THEN MsgNoActiveJob ELSE "accept"

\* The two early returns of handleCancelMessage.
CancelDecision(job) ==
    IF job.id = 0 \/ job.status # "running" THEN MsgNoActiveJob
    ELSE IF job.cancelRequested THEN MsgAlreadyRequested
    ELSE "accept"

ReqCancel ==
    /\ IF CancelDecision(bgJob) # "accept"
       THEN UNCHANGED <<bgJob, stq, h, events>>
       ELSE /\ h[CancelTag].pc \in {"idle", "replied"} /\ events < MaxEvents
            /\ bgJob' = [bgJob EXCEPT !.cancelRequested = TRUE,
                                      !.cancelReason = DEFAULT_CANCEL_MESSAGE]
            /\ stq' = Append(stq, StOp("set", bgJob', CancelTag))
            /\ h' = [h EXCEPT ![CancelTag] = At("commit", bgJob.id, 0, "", "", FALSE)]
            /\ events' = events + 1
    /\ UNCHANGED <<store, nextId, restarts, offVars, toBg, toOff, pdf>>

\* pushLog(currentJob.id, ...) after the commit: a null currentJob throws.
CancelAfterCommit ==
    /\ HeadIs(CancelTag, "commit")
    /\ store' = Applied(Head(stq))
    /\ IF bgJob.id = 0
       THEN /\ h' = [h EXCEPT ![CancelTag] = Replied(h[CancelTag].job, FALSE, MsgTypeError)]
            /\ bgJob' = bgJob
            /\ stq' = Tail(stq)
       ELSE /\ bgJob' = PushLogJob(bgJob, Info("cancelRequested"))
            /\ stq' = Append(Tail(stq), StOp("set", bgJob', CancelTag))
            /\ h' = [h EXCEPT ![CancelTag].pc = "log"]
    /\ UNCHANGED <<nextId, restarts, events, offVars, toBg, toOff, pdf>>

\* sendToOffscreen inside try: a null currentJob throws and is swallowed.
CancelAfterLog ==
    /\ HeadIs(CancelTag, "log")
    /\ store' = Applied(Head(stq))
    /\ stq' = Tail(stq)
    /\ IF bgJob.id = 0
       THEN /\ h' = [h EXCEPT ![CancelTag] = Replied(h[CancelTag].job, TRUE, "")]
            /\ toOff' = toOff
       ELSE /\ toOff' = Append(toOff, [Msg("cancel", bgJob.id, 0) EXCEPT
                                          !.tag = CancelTag, !.ep = restarts])
            /\ h' = [h EXCEPT ![CancelTag].pc = "send"]
    /\ UNCHANGED <<bgJob, nextId, restarts, events, offVars, toBg, pdf>>

CancelAfterSend ==
    /\ RespFor(CancelTag)
    /\ toBg' = Tail(toBg)
    /\ h' = [h EXCEPT ![CancelTag] = Replied(h[CancelTag].job, TRUE, "")]
    /\ UNCHANGED <<bgJob, store, stq, nextId, restarts, events, offVars, toOff, pdf>>

\* --- clear-status
ReqClear ==
    /\ events < MaxEvents
    /\ events' = events + 1
    /\ bgJob' = NoJob
    /\ stq' = Append(stq, StOp("remove", NoJob, NoTag))
    /\ UNCHANGED <<store, h, nextId, restarts, offVars, toBg, toOff, pdf>>

\* --- get-status: answers with currentJob, touches nothing.
StatusAnswer == bgJob

ReqStatus == UNCHANGED vars

\* --- offscreen-log
TracksAnyJob(job, j) == job.id # 0

\* The guard shared by handleOffscreenLog, handleOffscreenResult, pushLog and
\* markJobStatus: the message is for the job currently tracked.
Tracks(job, j) == job.id # 0 /\ job.id = j

BgLog(how) ==
    /\ toBg # <<>> /\ Head(toBg).type = "log"
    /\ h[LogTag].pc = "idle"
    /\ LET m == Head(toBg)
       IN  IF Tracks(bgJob, m.job)
           THEN /\ how = "local"
                /\ bgJob' = PushLogJob(bgJob, m.entry)
                /\ stq' = Append(stq, StOp("set", bgJob', LogTag))
                /\ h' = [h EXCEPT ![LogTag] = At("log", m.job, m.run, "", "", m.awaited)]
                /\ toBg' = Tail(toBg)
                /\ UNCHANGED <<runs, dJob, dCancel>>
           ELSE /\ AckRun(Tail(toBg), m.run, m.awaited, how)
                /\ UNCHANGED <<bgJob, stq, h>>
    /\ UNCHANGED <<store, nextId, restarts, events, hasDoc, nextRun, toOff, pdf>>

BgLogDone(how) ==
    /\ HeadIs(LogTag, "log")
    /\ store' = Applied(Head(stq))
    /\ stq' = Tail(stq)
    /\ AckRun(toBg, h[LogTag].run, h[LogTag].awaited, how)
    /\ h' = [h EXCEPT ![LogTag] = Idle]
    /\ UNCHANGED <<bgJob, nextId, restarts, events, hasDoc, nextRun, toOff, pdf>>

\* --- offscreen-result
\* markJobStatus(jobId, "success", {result}) and what follows it in
\* handleOffscreenResult, entered with the storage queue q.
ResultMarkSuccess(q, j, r, aw) ==
    IF Tracks(bgJob, j)
    THEN /\ bgJob' = MarkJob(bgJob, "success", "null", TheResult)
         /\ stq' = Append(q, StOp("set", bgJob', ResultTag))
         /\ h' = [h EXCEPT ![ResultTag] = At("mark", j, r, "success", "", aw)]
         /\ UNCHANGED <<runs, dJob, dCancel, toBg>>
    ELSE /\ AckRun(toBg, r, aw, "local")
         /\ h' = [h EXCEPT ![ResultTag] = Idle]
         /\ bgJob' = bgJob
         /\ stq' = q

BgResult ==
    /\ toBg # <<>> /\ Head(toBg).type = "result"
    /\ h[ResultTag].pc = "idle"
    /\ LET m == Head(toBg)
       IN  IF ~Tracks(bgJob, m.job)
           THEN /\ AckRun(Tail(toBg), m.run, m.awaited, "local")
                /\ UNCHANGED <<bgJob, stq, h>>
           ELSE IF m.status = "success"
           THEN /\ h' = [h EXCEPT ![ResultTag] =
                                      At("tab", m.job, m.run, "success", "", m.awaited)]
                /\ toBg' = Tail(toBg)
                /\ UNCHANGED <<bgJob, stq, runs, dJob, dCancel>>
           ELSE /\ bgJob' =
                      IF m.status = "aborted"
                      THEN MarkJob([bgJob EXCEPT !.cancelRequested = TRUE,
                                                 !.cancelReason = m.err],
                                   "aborted", m.err, Undefined)
                      ELSE MarkJob(bgJob, "error", m.err, Undefined)
                /\ stq' = Append(stq, StOp("set", bgJob', ResultTag))
                /\ h' = [h EXCEPT ![ResultTag] =
                                      At("mark", m.job, m.run, m.status, m.err, m.awaited)]
                /\ toBg' = Tail(toBg)
                /\ UNCHANGED <<runs, dJob, dCancel>>
    /\ UNCHANGED <<store, nextId, restarts, events, hasDoc, nextRun, toOff, pdf>>

\* openScrapboxTab returned (opened TRUE) or threw.
BgResultTab(opened) ==
    /\ h[ResultTag].pc = "tab"
    /\ LET me == h[ResultTag]
       IN  IF ~opened /\ Tracks(bgJob, me.job)
           THEN /\ bgJob' = PushLogJob(bgJob, Info("tabFailed"))
                /\ stq' = Append(stq, StOp("set", bgJob', ResultTag))
                /\ h' = [h EXCEPT ![ResultTag].pc = "tablog"]
                /\ UNCHANGED <<runs, dJob, dCancel, toBg>>
           ELSE ResultMarkSuccess(stq, me.job, me.run, me.awaited)
    /\ UNCHANGED <<store, nextId, restarts, events, hasDoc, nextRun, toOff, pdf>>

BgResultAfterTabLog ==
    /\ HeadIs(ResultTag, "tablog")
    /\ store' = Applied(Head(stq))
    /\ ResultMarkSuccess(Tail(stq), h[ResultTag].job, h[ResultTag].run,
                         h[ResultTag].awaited)
    /\ UNCHANGED <<nextId, restarts, events, hasDoc, nextRun, toOff, pdf>>

BgResultDone ==
    /\ HeadIs(ResultTag, "mark")
    /\ store' = Applied(Head(stq))
    /\ stq' = Tail(stq)
    /\ AckRun(toBg, h[ResultTag].run, h[ResultTag].awaited, "local")
    /\ h' = [h EXCEPT ![ResultTag] = Idle]
    /\ UNCHANGED <<bgJob, nextId, restarts, events, hasDoc, nextRun, toOff, pdf>>

\* --- service worker restart and loadPersistedJob
Retag(q) == [i \in 1..Len(q) |-> [q[i] EXCEPT !.tag = NoTag]]

\* The handler, if any, that owes a response to a run that awaits it.
Owing ==
    IF h[LogTag].pc # "idle" /\ h[LogTag].awaited THEN LogTag
    ELSE IF h[ResultTag].pc # "idle" /\ h[ResultTag].awaited THEN ResultTag
    ELSE NoTag

\* The worker is discarded and started again: memory and handlers are lost,
\* storage operations already called still land, loadPersistedJob() is called.
\* A sendMessage whose listener promised a response and then went away is
\* rejected at the sender.
Restart ==
    /\ restarts < MaxRestarts /\ events < MaxEvents
    /\ restarts' = restarts + 1
    /\ events' = events + 1
    /\ bgJob' = NoJob
    /\ h' = [t \in Tags |-> IF t = LoadTag THEN At("get", 0, 0, "", "", FALSE) ELSE Idle]
    /\ stq' = Append(Retag(stq), StOp("get", NoJob, LoadTag))
    /\ IF Owing # NoTag
       THEN /\ toOff = <<>>
            /\ Apply(h[Owing].run,
                     RunContinue(h[Owing].run, runs[h[Owing].run], FALSE, MsgPortClosed, "local"),
                     toBg)
       ELSE UNCHANGED <<runs, dJob, dCancel, toBg>>
    /\ UNCHANGED <<store, nextId, hasDoc, nextRun, toOff, pdf>>

ResumeJobDropsKey(job) ==
    [job EXCEPT !.cancelRequested = FALSE, !.cancelReason = "null", !.apiKey = FALSE,
                !.logs = Append(@, Info("resumed"))]

\* The resume branch's mutation of the loaded job (no LOG_LIMIT check here).
ResumeJob(job) ==
    [job EXCEPT !.cancelRequested = FALSE, !.cancelReason = "null",
                !.logs = Append(@, Info("resumed"))]

\* The branch taken when the running job has lost its credential.
AbortLoadedKeepsRunning(job) ==
    [job EXCEPT !.error = MsgResumeImpossible,
                !.logs = Append(@, Info(MsgResumeImpossible))]

AbortLoaded(job) ==
    [job EXCEPT !.status = "aborted", !.error = MsgResumeImpossible,
                !.logs = Append(@, Info(MsgResumeImpossible))]

CanResume(job) == job.apiKey

LoadAfterGet ==
    /\ HeadIs(LoadTag, "get")
    /\ Head(stq).op = "get"
    /\ IF store.id = 0
       THEN /\ h' = [h EXCEPT ![LoadTag] = Idle]
            /\ bgJob' = bgJob
            /\ stq' = Tail(stq)
       ELSE IF store.status # "running"
       THEN /\ bgJob' = store
            /\ h' = [h EXCEPT ![LoadTag] = Idle]
            /\ stq' = Tail(stq)
       ELSE IF CanResume(store)
       THEN /\ bgJob' = ResumeJob(store)
            /\ stq' = Append(Tail(stq), StOp("set", bgJob', LoadTag))
            /\ h' = [h EXCEPT ![LoadTag] = At("commit", store.id, 0, "", "", FALSE)]
       ELSE /\ bgJob' = AbortLoaded(store)
            /\ stq' = Append(Tail(stq), StOp("set", bgJob', LoadTag))
            /\ h' = [h EXCEPT ![LoadTag] = At("abort", store.id, 0, "", "", FALSE)]
    /\ UNCHANGED <<store, nextId, restarts, events, offVars, toBg, toOff, pdf>>

LoadAfterCommit ==
    /\ HeadIs(LoadTag, "commit")
    /\ store' = Applied(Head(stq))
    /\ stq' = Tail(stq)
    /\ h' = [h EXCEPT ![LoadTag].pc = "ensure"]
    /\ UNCHANGED <<bgJob, nextId, restarts, events, offVars, toBg, toOff, pdf>>

LoadAfterAbort ==
    /\ HeadIs(LoadTag, "abort")
    /\ store' = Applied(Head(stq))
    /\ stq' = Tail(stq)
    /\ h' = [h EXCEPT ![LoadTag] = Idle]
    /\ UNCHANGED <<bgJob, nextId, restarts, events, offVars, toBg, toOff, pdf>>

\* The inner catch of loadPersistedJob: pushLog(currentJob.id, ...) throws to
\* the outer catch when currentJob is null.
LoadFail(msg, q) ==
    IF bgJob.id = 0
    THEN /\ h' = [h EXCEPT ![LoadTag] = Idle]
         /\ bgJob' = bgJob
         /\ stq' = q
    ELSE /\ bgJob' = PushLogJob(bgJob, Err(msg))
         /\ stq' = Append(q, StOp("set", bgJob', LoadTag))
         /\ h' = [h EXCEPT ![LoadTag] = At("errlog", bgJob.id, 0, "", msg, FALSE)]

ResumeFlag(job) == TRUE

LoadEnsure(created) ==
    /\ h[LoadTag].pc = "ensure"
    /\ created \/ ~hasDoc
    /\ IF ~created
       THEN /\ LoadFail(MsgNoOffscreen, stq)
            /\ UNCHANGED <<hasDoc, toOff>>
       ELSE /\ hasDoc' = TRUE
            /\ IF bgJob.id = 0
               THEN LoadFail(MsgTypeError, stq) /\ toOff' = toOff
               ELSE /\ toOff' = Append(toOff,
                          [Msg("start", bgJob.id, 0) EXCEPT
                              !.ctx = bgJob.ctx, !.apiKey = bgJob.apiKey,
                              !.resume = ResumeFlag(bgJob),
                              !.tag = LoadTag, !.ep = restarts])
                    /\ h' = [h EXCEPT ![LoadTag].pc = "send"]
                    /\ UNCHANGED <<bgJob, stq>>
    /\ UNCHANGED <<store, nextId, restarts, events, dJob, dCancel, runs, nextRun, toBg, pdf>>

\* The response to the resume start is not inspected; only a rejected send
\* (no receiver) reaches the catch.
LoadAfterSend ==
    /\ RespFor(LoadTag)
    /\ toBg' = Tail(toBg)
    /\ IF ~Head(toBg).ok /\ Head(toBg).err = MsgPortClosed
       THEN LoadFail(MsgPortClosed, stq)
       ELSE /\ h' = [h EXCEPT ![LoadTag] = Idle]
            /\ UNCHANGED <<bgJob, stq>>
    /\ UNCHANGED <<store, nextId, restarts, events, offVars, toOff, pdf>>

LoadAfterErrLog ==
    /\ HeadIs(LoadTag, "errlog")
    /\ store' = Applied(Head(stq))
    /\ IF bgJob.id = 0
       THEN /\ h' = [h EXCEPT ![LoadTag] = Idle]
            /\ bgJob' = bgJob
            /\ stq' = Tail(stq)
       ELSE /\ bgJob' = MarkJob(bgJob, "error", h[LoadTag].err, Undefined)
            /\ stq' = Append(Tail(stq), StOp("set", bgJob', LoadTag))
            /\ h' = [h EXCEPT ![LoadTag].pc = "errmark"]
    /\ UNCHANGED <<nextId, restarts, events, offVars, toBg, toOff, pdf>>

LoadAfterErrMark ==
    /\ HeadIs(LoadTag, "errmark")
    /\ store' = Applied(Head(stq))
    /\ stq' = Tail(stq)
    /\ h' = [h EXCEPT ![LoadTag] = Idle]
    /\ UNCHANGED <<bgJob, nextId, restarts, events, offVars, toBg, toOff, pdf>>

\* A response for a handler that no longer waits for it.
BgDropResp ==
    /\ toBg # <<>> /\ Head(toBg).type = "resp"
    /\ ~RespFor(Head(toBg).tag)
    /\ toBg' = Tail(toBg)
    /\ UNCHANGED <<bgVars, offVars, toOff, pdf>>

\* ============================================================= delegate
\* The early returns of the delegate's handleStartMessage.
OffStartNoBusy(cur, m) ==
    IF cur.id # 0 /\ cur.id = m.job
    THEN IF m.resume THEN "resumed" ELSE MsgSameJob
    ELSE "run"

OffStartDecision(cur, m) ==
    IF cur.id # 0
    THEN IF cur.id = m.job
         THEN IF m.resume THEN "resumed" ELSE MsgSameJob
         ELSE MsgBusy
    ELSE "run"

\* The orchestrator has accepted a cancel request for job j, still running.
CancelAccepted(j) ==
    bgJob.id = j /\ bgJob.status = "running" /\ bgJob.cancelRequested

\* handleStartMessage: runSummaryJob runs up to its first await (the send of
\* the first log line) before the response is sent.
OffStart ==
    /\ hasDoc
    /\ toOff # <<>> /\ Head(toOff).type = "start"
    /\ toOff' = Tail(toOff)
    /\ LET m == Head(toOff)
           d == OffStartDecision(dJob, m)
       IN  IF d = "run"
           THEN /\ nextRun < MaxRuns
                /\ nextRun' = nextRun + 1
                /\ dCancel' = FALSE
                /\ dJob' = [id |-> m.job, ctx |-> m.ctx, apiKey |-> m.apiKey]
                /\ LET rec == [NoRun EXCEPT !.job = m.job, !.ctx = m.ctx, !.pc = "log0",
                                             !.early = CancelAccepted(m.job)]
                   IN  /\ runs' = [runs EXCEPT ![nextRun + 1] = rec]
                       /\ toBg' = toBg \o <<LogMsg(nextRun + 1, rec, Info("resolveStart")),
                                            RespTo(m, TRUE, "")>>
           ELSE /\ toBg' = Append(toBg, RespTo(m, d = "resumed",
                                               IF d = "resumed" THEN "" ELSE d))
                /\ UNCHANGED <<dJob, dCancel, runs, nextRun>>
    /\ UNCHANGED <<bgVars, hasDoc, pdf>>

\* The offscreen-cancel branch of the delegate's listener.
OffCancel ==
    /\ hasDoc
    /\ toOff # <<>> /\ Head(toOff).type = "cancel"
    /\ toOff' = Tail(toOff)
    /\ LET m == Head(toOff)
       IN  IF dJob.id = 0 \/ dJob.id # m.job
           THEN /\ toBg' = Append(toBg, RespTo(m, FALSE, MsgCancelNoJob))
                /\ dCancel' = dCancel
           ELSE /\ dCancel' = TRUE
                /\ toBg' = Append(toBg, RespTo(m, TRUE, ""))
    /\ UNCHANGED <<bgVars, hasDoc, dJob, runs, nextRun, pdf>>

\* A message sent while no offscreen document exists finds no receiver.
OffNoReceiver ==
    /\ ~hasDoc
    /\ toOff # <<>> /\ Head(toOff).type \in {"start", "cancel"}
    /\ toOff' = Tail(toOff)
    /\ toBg' = Append(toBg, RespTo(Head(toOff), FALSE, MsgPortClosed))
    /\ UNCHANGED <<bgVars, offVars, pdf>>

\* A network call of run r returns.
RunNet(r, ok) ==
    /\ runs[r].pc \in NetPcs
    /\ Apply(r, OnNet(r, runs[r], ok), toBg)
    /\ UNCHANGED <<bgVars, hasDoc, nextRun, toOff, pdf>>

\* ============================================================= specification
Next ==
    \/ \E p \in Payloads : ReqStart(p)
    \/ ReqCancel
    \/ ReqClear
    \/ ReqStatus
    \/ StorageApply
    \/ \E j \in JobIds : StartAfterCommit(j)
    \/ \E j \in JobIds : StartAfterLog(j)
    \/ \E j \in JobIds, created \in BOOLEAN : StartEnsure(j, created)
    \/ \E j \in JobIds : StartAfterSend(j)
    \/ \E j \in JobIds : StartAfterErrLog(j)
    \/ \E j \in JobIds : StartAfterErrMark(j)
    \/ CancelAfterCommit
    \/ CancelAfterLog
    \/ CancelAfterSend
    \/ \E how \in Hows : BgLog(how)
    \/ \E how \in Hows : BgLogDone(how)
    \/ BgResult
    \/ \E opened \in BOOLEAN : BgResultTab(opened)
    \/ BgResultAfterTabLog
    \/ BgResultDone
    \/ Restart
    \/ LoadAfterGet
    \/ LoadAfterCommit
    \/ \E created \in BOOLEAN : LoadEnsure(created)
    \/ LoadAfterSend
    \/ LoadAfterErrLog
    \/ LoadAfterErrMark
    \/ BgDropResp
    \/ OffStart
    \/ OffCancel
    \/ OffNoReceiver
    \/ \E r \in RunIds, ok \in BOOLEAN : RunNet(r, ok)

Spec == Init /\ [][Next]_vars

\* --- the worker starts over a record it did not leave itself
\* A persisted record that is running without its credential.  No operation of
\* the orchestrator writes it (the credential is cleared in the step that ends
\* the job); storage outlives the worker and the extension's versions.
BadSnapshot == [NewJob(1) EXCEPT !.apiKey = FALSE, !.logs = <<Info("started")>>]

\* Construction: the worker calls loadPersistedJob(), over empty storage or
\* over BadSnapshot.
InitStored ==
    /\ bgJob = NoJob
    /\ store \in {NoJob, BadSnapshot}
    /\ stq = <<StOp("get", NoJob, LoadTag)>>
    /\ h = [t \in Tags |-> IF t = LoadTag THEN At("get", 0, 0, "", "", FALSE) ELSE Idle]
    /\ nextId = store.id
    /\ restarts = 0
    /\ events = 0
    /\ hasDoc = FALSE
    /\ dJob = NoDJob
    /\ dCancel = FALSE
    /\ runs = [r \in RunIds |-> NoRun]
    /\ nextRun = 0
    /\ toBg = <<>>
    /\ toOff = <<>>
    /\ pdf = NoPdf

NextStored == Next \/ LoadAfterAbort

SpecStored == InitStored /\ [][NextStored]_vars

\* --- a job whose log is full
\* The log of job 1 while its run waits for the summary, after the worker was
\* restarted again and again: each resume appended one entry.
FullLogs ==
    [i \in 1..LOG_LIMIT |->
        IF i = 1 THEN Info("started")
        ELSE IF i = 2 THEN Info("resolveStart")
        ELSE IF i = 3 THEN Info("resolved")
        ELSE IF i = 4 THEN Info("downloaded")
        ELSE IF i = 5 THEN Info("uploaded")
        ELSE IF i = 6 THEN Info("title")
        ELSE Info("resumed")]

\* That state: job 1 running with FullLogs, its run at the summary request,
\* every handler finished, one more event allowed.
InitFull ==
    /\ bgJob = [NewJob(1) EXCEPT !.logs = FullLogs]
    /\ store = bgJob
    /\ stq = <<>>
    /\ h = [t \in Tags |-> IF t = StartTag(1) THEN Replied(1, TRUE, "") ELSE Idle]
    /\ nextId = 1
    /\ restarts = MaxRestarts - 1
    /\ events = MaxEvents - 1
    /\ hasDoc = TRUE
    /\ dJob = [id |-> 1, ctx |-> 1, apiKey |-> TRUE]
    /\ dCancel = FALSE
    /\ runs = [r \in RunIds |->
                 IF r = 1
                 THEN [NoRun EXCEPT !.job = 1, !.ctx = 1, !.pc = "netSummary",
                                    !.file = TRUE,
                                    !.calls = <<"download", "upload", "title", "summary">>]
                 ELSE NoRun]
    /\ nextRun = 1
    /\ toBg = <<>>
    /\ toOff = <<>>
    /\ pdf = NoPdf

SpecFull == (Init \/ InitFull) /\ [][Next]_vars

\* --- a job in the middle of its pipeline
\* Job 1 accepted, handed off, and its run waiting for the summary; every
\* handler finished.
InitMid ==
    /\ bgJob = [NewJob(1) EXCEPT !.logs = SubSeq(FullLogs, 1, 6)]
    /\ store = bgJob
    /\ stq = <<>>
    /\ h = [t \in Tags |-> IF t = StartTag(1) THEN Replied(1, TRUE, "") ELSE Idle]
    /\ nextId = 1
    /\ restarts = 0
    /\ events = 0
    /\ hasDoc = TRUE
    /\ dJob = [id |-> 1, ctx |-> 1, apiKey |-> TRUE]
    /\ dCancel = FALSE
    /\ runs = [r \in RunIds |->
                 IF r = 1
                 THEN [NoRun EXCEPT !.job = 1, !.ctx = 1, !.pc = "netSummary",
                                    !.file = TRUE,
                                    !.calls = <<"download", "upload", "title", "summary">>]
                 ELSE NoRun]
    /\ nextRun = 1
    /\ toBg = <<>>
    /\ toOff = <<>>
    /\ pdf = NoPdf

SpecMid == (Init \/ InitMid) /\ [][Next]_vars

\* A start request for job 1 has just been accepted by a worker that was
\* restarted over an empty store: handleStartMessage is at its first await
\* commitJob().  The count of events is back at 0, so that a clear and a
\* second start fit the bound.
InitStarted ==
    /\ bgJob = NewJob(1)
    /\ store = NoJob
    /\ stq = <<StOp("set", NewJob(1), StartTag(1))>>
    /\ h = [t \in Tags |-> IF t = StartTag(1) THEN At("commit", 1, 0, "", "", FALSE)
                                             ELSE Idle]
    /\ nextId = 1
    /\ restarts = MaxRestarts
    /\ events = 0
    /\ hasDoc = FALSE
    /\ dJob = NoDJob
    /\ dCancel = FALSE
    /\ runs = [r \in RunIds |-> NoRun]
    /\ nextRun = 0
    /\ toBg = <<>>
    /\ toOff = <<>>
    /\ pdf = NoPdf

SpecStarted == (Init \/ InitStarted) /\ [][Next]_vars

\* --- scheduling
\* Every step but a user request and a restart is taken once it stays
\* possible: storage operations complete, messages are delivered, network
\* calls return.
Fairness ==
    /\ WF_vars(StorageApply)
    /\ \A j \in JobIds :
          /\ WF_vars(StartAfterCommit(j))
          /\ WF_vars(StartAfterLog(j))
          /\ WF_vars(\E created \in BOOLEAN : StartEnsure(j, created))
          /\ WF_vars(StartAfterSend(j))
          /\ WF_vars(StartAfterErrLog(j))
          /\ WF_vars(StartAfterErrMark(j))
    /\ WF_vars(CancelAfterCommit)
    /\ WF_vars(CancelAfterLog)
    /\ WF_vars(CancelAfterSend)
    /\ WF_vars(\E how \in Hows : BgLog(how))
    /\ WF_vars(\E how \in Hows : BgLogDone(how))
    /\ WF_vars(BgResult)
    /\ WF_vars(\E opened \in BOOLEAN : BgResultTab(opened))
    /\ WF_vars(BgResultAfterTabLog)
    /\ WF_vars(BgResultDone)
    /\ WF_vars(LoadAfterGet)
    /\ WF_vars(LoadAfterCommit)
    /\ WF_vars(\E created \in BOOLEAN : LoadEnsure(created))
    /\ WF_vars(LoadAfterSend)
    /\ WF_vars(LoadAfterErrLog)
    /\ WF_vars(LoadAfterErrMark)
    /\ WF_vars(BgDropResp)
    /\ WF_vars(OffStart)
    /\ WF_vars(OffCancel)
    /\ WF_vars(OffNoReceiver)
    /\ \A r \in RunIds : WF_vars(\E ok \in BOOLEAN : RunNet(r, ok))

FairSpec == Init /\ [][Next]_vars /\ Fairness

\* ============================================================= PDF resolution
\* URLs, attribute values and texts are strings; the string methods the code
\* calls are computed character by character.
CharAt(s, i) == SubSeq(s, i, i)
From(s, i) == SubSeq(s, i, Len(s))

\* toLowerCase of one character: the letter below an upper-case letter, else
\* the character itself.
LowerChar(c) ==
    LET at == {i \in 1..Len("ABCDEFGHIJKLMNOPQRSTUVWXYZ") :
                  CharAt("ABCDEFGHIJKLMNOPQRSTUVWXYZ", i) = c}
    IN  IF at = {} THEN c ELSE CharAt("abcdefghijklmnopqrstuvwxyz", CHOOSE i \in at : TRUE)

RECURSIVE toLowerCase(_)
toLowerCase(s) ==
    IF s = "" THEN "" ELSE LowerChar(CharAt(s, 1)) \o toLowerCase(From(s, 2))

endsWith(s, suffix) ==
    Len(s) >= Len(suffix) /\ From(s, Len(s) - Len(suffix) + 1) = suffix

startsWith(s, prefix) ==
    Len(s) >= Len(prefix) /\ SubSeq(s, 1, Len(prefix)) = prefix

includes(s, part) ==
    \E i \in 0..(Len(s) - Len(part)) : SubSeq(s, i + 1, i + Len(part)) = part

RECURSIVE trim(_)
trim(s) ==
    IF startsWith(s, " ") THEN trim(From(s, 2))
    ELSE IF endsWith(s, " ") THEN trim(SubSeq(s, 1, Len(s) - 1))
    ELSE s

\* s without one trailing slash: replace(/\/$/, "").
NoTrailingSlash(s) == IF endsWith(s, "/") THEN SubSeq(s, 1, Len(s) - 1) ELSE s

\* The first position at or after from whose character is in cs; past the end
\* of s when there is none.
IndexOfAny(s, cs, from) ==
    LET at == {i \in from..Len(s) : CharAt(s, i) \in cs}
    IN  IF at = {} THEN Len(s) + 1 ELSE CHOOSE i \in at : \A j \in at : i <= j

\* The last position where part starts in s; 0 when it does not occur.
LastIndexOf(s, part) ==
    LET at == {i \in 1..(Len(s) - Len(part) + 1) : SubSeq(s, i, i + Len(part) - 1) = part}
    IN  IF at = {} THEN 0 ELSE CHOOSE i \in at : \A j \in at : j <= i

\* --- new URL(input, base) and its fields.  The parser of the URL standard on
\* the inputs drawn below: surrounding spaces are stripped, the host of an
\* http(s) URL is lower-cased and its empty path becomes "/", anything without
\* that scheme is relative to the base and a TypeError without one.  Other
\* schemes, dot segments, ports and percent-encoding do not occur in the
\* inputs.
Url(origin, pathname, search, hash) ==
    [ok |-> TRUE, origin |-> origin, pathname |-> pathname, search |-> search,
     hash |-> hash]

InvalidUrl == [ok |-> FALSE, origin |-> "", pathname |-> "", search |-> "", hash |-> ""]

\* pathname, search and hash of the part s of a URL after its origin.
SplitPath(origin, s) ==
    LET q == IndexOfAny(s, {"?", "#"}, 1)
        x == IndexOfAny(s, {"#"}, 1)
    IN  Url(origin, SubSeq(s, 1, q - 1), SubSeq(s, q, x - 1), From(s, x))

SchemeOf(s) ==
    IF startsWith(toLowerCase(s), "https://") THEN "https://"
    ELSE IF startsWith(toLowerCase(s), "http://") THEN "http://"
    ELSE ""

\* An http(s) URL with its scheme, its lower-cased host and what follows it.
HostAndRest(scheme, host, rest) ==
    IF host = "" \/ includes(host, " ") THEN InvalidUrl
    ELSE SplitPath(scheme \o host, IF startsWith(rest, "/") THEN rest ELSE "/" \o rest)

\* e is where the host ends.
AbsoluteAt(s, scheme, e) ==
    HostAndRest(scheme, toLowerCase(SubSeq(s, Len(scheme) + 1, e - 1)), From(s, e))

ParseRelative(s, base) ==
    IF ~base.ok THEN InvalidUrl
    ELSE IF s = "" THEN [base EXCEPT !.hash = ""]
    ELSE IF startsWith(s, "/") THEN SplitPath(base.origin, s)
    ELSE IF startsWith(s, "?") THEN SplitPath(base.origin, base.pathname \o s)
    ELSE IF startsWith(s, "#") THEN [base EXCEPT !.hash = s]
    ELSE SplitPath(base.origin,
                   SubSeq(base.pathname, 1, LastIndexOf(base.pathname, "/")) \o s)

\* s is the input without surrounding spaces, scheme its scheme.
ParseWith(s, scheme, base) ==
    IF scheme # ""
    THEN AbsoluteAt(s, scheme, IndexOfAny(s, {"/", "?", "#"}, Len(scheme) + 1))
    ELSE ParseRelative(s, base)

ParseUrl(input, base) == ParseWith(trim(input), SchemeOf(trim(input)), base)

\* new URL(input): no base.
NewURL1(input) == ParseUrl(input, InvalidUrl)

\* new URL(input, base), base a string.
NewURL(input, base) == ParseUrl(input, NewURL1(base))

\* URL.prototype.toString
toString(u) == u.origin \o u.pathname \o u.search \o u.hash

hostname(u) == From(u.origin, Len(SchemeOf(u.origin)) + 1)

\* The value of the parameter that starts at i0 in search s; "" when i0 is 0.
ParamAt(s, key, i0) ==
    IF i0 = 0 THEN "" ELSE SubSeq(s, i0 + Len(key), IndexOfAny(s, {"&"}, i0) - 1)

\* URLSearchParams.get: the value of the first parameter called name, "" when
\* there is none (null in the code; both are falsy).
SearchParam(u, name) ==
    ParamAt(u.search, name \o "=",
            LET at == {i \in 2..(Len(u.search) - Len(name)) :
                          /\ SubSeq(u.search, i, i + Len(name)) = name \o "="
                          /\ (i = 2 \/ CharAt(u.search, i - 1) = "&")}
            IN  IF at = {} THEN 0 ELSE CHOOSE i \in at : \A j \in at : i <= j)

\* --- an argument that may be left out (undefined) or null
Absent == [given |-> FALSE, value |-> ""]
Given(s) == [given |-> TRUE, value |-> s]
\* a default parameter value followed by `|| ""`
OrEmpty(a) == IF a.given THEN a.value ELSE ""

looksLikePdfCaseSensitive(url, anchorText, mimeType) ==
    IF endsWith(url, ".pdf") THEN TRUE
    ELSE IF toLowerCase(OrEmpty(mimeType)) = "application/pdf" THEN TRUE
    ELSE IF includes(url, ".pdf") THEN TRUE
    ELSE IF includes(url, "/pdf/") THEN TRUE
    ELSE IF includes(url, "format=pdf") \/ includes(url, "download=1") THEN TRUE
    ELSE IF includes(toLowerCase(OrEmpty(anchorText)), "pdf") THEN TRUE
    ELSE FALSE

looksLikePdf(url, anchorText, mimeType) ==
    LET lowerUrl == toLowerCase(url)
        lowerText == toLowerCase(OrEmpty(anchorText))
        lowerMime == toLowerCase(OrEmpty(mimeType))
    IN  IF endsWith(lowerUrl, ".pdf") THEN TRUE
        ELSE IF lowerMime = "application/pdf" THEN TRUE
        ELSE IF includes(lowerUrl, ".pdf") THEN TRUE
        ELSE IF includes(lowerUrl, "/pdf/") THEN TRUE
        ELSE IF includes(lowerUrl, "format=pdf") \/ includes(lowerUrl, "download=1")
             THEN TRUE
        ELSE IF includes(lowerText, "pdf") THEN TRUE
        ELSE FALSE

uniquePushFront(list, value) ==
    IF \E i \in 1..Len(list) : list[i] = value THEN list ELSE <<value>> \o list

uniquePush(list, value) ==
    IF \E i \in 1..Len(list) : list[i] = value THEN list ELSE Append(list, value)

DirectRulesAnyHost(origin, host, path, id) ==
    LET identifier == NoTrailingSlash(From(path, Len("/abs/") + 1))
        normalized == NoTrailingSlash(path)
        doiPart == From(path, LastIndexOf(path, "/doi/") + Len("/doi/"))
    IN  IF endsWith(host, "arxiv.org") /\ startsWith(path, "/abs/") /\ identifier # ""
        THEN origin \o "/pdf/" \o identifier
             \o (IF endsWith(identifier, ".pdf") THEN "" ELSE ".pdf")
        ELSE IF endsWith(host, "aclanthology.org") /\ normalized # ""
        THEN origin \o normalized \o ".pdf"
        ELSE IF id # ""
        THEN origin \o "/pdf?id=" \o id
        ELSE IF host = "dl.acm.org" /\ includes(path, "/doi/") /\ doiPart # ""
        THEN origin \o "/doi/pdf/" \o doiPart \o "?download=true"
        ELSE ""

\* --- the known-site rules, on the fields of the parsed page URL; id is its id
\* parameter.  "" is null: no rule applies.
DirectRules(origin, host, path, id) ==
    LET identifier == NoTrailingSlash(From(path, Len("/abs/") + 1))
        normalized == NoTrailingSlash(path)
        doiPart == From(path, LastIndexOf(path, "/doi/") + Len("/doi/"))
    IN  IF endsWith(host, "arxiv.org") /\ startsWith(path, "/abs/") /\ identifier # ""
        THEN origin \o "/pdf/" \o identifier
             \o (IF endsWith(identifier, ".pdf") THEN "" ELSE ".pdf")
        ELSE IF endsWith(host, "aclanthology.org") /\ normalized # ""
        THEN origin \o normalized \o ".pdf"
        ELSE IF endsWith(host, "openreview.net") /\ id # ""
        THEN origin \o "/pdf?id=" \o id
        ELSE IF host = "dl.acm.org" /\ includes(path, "/doi/") /\ doiPart # ""
        THEN origin \o "/doi/pdf/" \o doiPart \o "?download=true"
        ELSE ""

DirectFrom(parsed) ==
    IF ~parsed.ok THEN ""
    ELSE DirectRules(parsed.origin, toLowerCase(hostname(parsed)), parsed.pathname,
                     SearchParam(parsed, "id"))

deriveDirectPdfUrl(pageUrl) == DirectFrom(NewURL1(pageUrl))

\* --- the page.  What the three regular expressions of findPdfUrl match in the
\* fetched HTML, each in document order: the <a href> elements ("a") with the
\* href value, the text left by stripTags and the type attribute; the
\* citation_pdf_url <meta> elements ("meta") with the content attribute as
\* href; the <link> elements ("link") with their href and type attributes.
\* "" is an attribute that is missing or empty.
El(kind, href, text, type) == [kind |-> kind, href |-> href, text |-> text, type |-> type]

Page(anchors, metas, links) == [anchors |-> anchors, metas |-> metas, links |-> links]

NoPage == Page(<<>>, <<>>, <<>>)

\* The elements in the order the three loops visit them.
Elements(html) == html.anchors \o html.metas \o html.links

VisitOnlyPushes(e, pageUrl) ==
    IF e.kind = "link" /\ toLowerCase(e.type) # "application/pdf"
    THEN [what |-> "skip", url |-> ""]
    ELSE IF e.href = "" THEN [what |-> "skip", url |-> ""]
    ELSE IF ~NewURL(e.href, pageUrl).ok THEN [what |-> "skip", url |-> ""]
    ELSE IF /\ e.kind = "a"
            /\ ~looksLikePdf(toString(NewURL(e.href, pageUrl)), Given(e.text),
                             Given(toLowerCase(e.type)))
         THEN [what |-> "skip", url |-> ""]
    ELSE [what |-> "push", url |-> toString(NewURL(e.href, pageUrl))]

\* One iteration of a loop of findPdfUrl over element e, typeAttr being its
\* lower-cased type attribute, ok whether its URL resolved and to what: "skip"
\* (continue), "return" (an exact .pdf match) or "push" (uniquePush).
VisitUrl(e, typeAttr, ok, resolved) ==
    IF e.kind = "link" /\ typeAttr # "application/pdf" THEN [what |-> "skip", url |-> ""]
    ELSE IF e.href = "" THEN [what |-> "skip", url |-> ""]
    ELSE IF ~ok THEN [what |-> "skip", url |-> ""]
    ELSE IF e.kind = "a" /\ ~looksLikePdf(resolved, Given(e.text), Given(typeAttr))
         THEN [what |-> "skip", url |-> resolved]
    ELSE IF endsWith(toLowerCase(resolved), ".pdf") THEN [what |-> "return", url |-> resolved]
    ELSE [what |-> "push", url |-> resolved]

Visit(e, pageUrl) ==
    VisitUrl(e, toLowerCase(e.type), NewURL(e.href, pageUrl).ok,
             toString(NewURL(e.href, pageUrl)))

\* The loops of findPdfUrl from element i on, pdfCandidates being list; After
\* is the rest of iteration i once the element was visited (v).  The outcome:
\* the URL returned ("" when the function throws), whether it is an exact
\* match, the candidate list at that moment and the number of elements visited.
RECURSIVE Scan(_, _, _, _)
After(els, pageUrl, i, list, v) ==
    IF v.what = "return"
    THEN [url |-> v.url, exact |-> TRUE, list |-> list, visited |-> i]
    ELSE Scan(els, pageUrl, i + 1,
              IF v.what = "push" THEN uniquePush(list, v.url) ELSE list)

Scan(els, pageUrl, i, list) ==
    IF i > Len(els)
    THEN [url |-> IF Len(list) > 0 THEN list[1] ELSE "", exact |-> FALSE,
          list |-> list, visited |-> Len(els)]
    ELSE After(els, pageUrl, i, list, Visit(els[i], pageUrl))

\* The outcome of the resolution: the branch that ended it, its URL or its
\* error, and the scan of the page when there was one.  The errors:
\* "badOverride" ("指定されたPDF URLを正しく解釈できませんでした"), "pageFailed"
\* (`ページ取得に失敗しました (status ...)`), "notFound" ("PDFリンクを検出できませんでした").
Res(stage, url, err, scan) == [stage |-> stage, url |-> url, err |-> err, scan |-> scan]

\* findPdfUrl returns or throws after the scan s.
AfterScan(s) == Res("html", s.url, IF s.url = "" THEN "notFound" ELSE "", <<s>>)

\* findPdfUrl once the page request has returned: response.ok and the HTML.
Discover(pageUrl, ok, html) ==
    IF ~ok THEN Res("html", "", "pageFailed", <<>>)
    ELSE AfterScan(Scan(Elements(html), pageUrl, 1, <<>>))

\* The override branch of runSummaryJob, o being new URL(pdfUrl, pageUrl).
UseOverride(o) ==
    IF o.ok THEN Res("override", toString(o), "", <<>>)
    ELSE Res("override", "", "badOverride", <<>>)

\* findPdfUrl up to its page request, direct being deriveDirectPdfUrl's result.
UseDirect(direct) ==
    IF direct # "" THEN Res("rule", direct, "", <<>>) ELSE Res("fetch", "", "", <<>>)

ResolvePageFirst(pageUrl, pdfUrl) ==
    IF looksLikePdf(pageUrl, Absent, Absent) THEN Res("page", pageUrl, "", <<>>)
    ELSE IF OrEmpty(pdfUrl) # "" /\ trim(OrEmpty(pdfUrl)) # ""
    THEN UseOverride(NewURL(OrEmpty(pdfUrl), pageUrl))
    ELSE UseDirect(deriveDirectPdfUrl(pageUrl))

\* The resolution of runSummaryJob up to the page request of findPdfUrl.
\* pdfUrl is the optional override.  stage names the branch that ended the
\* resolution; "fetch" is the request for the page, still to return.
ResolveLocal(pageUrl, pdfUrl) ==
    IF OrEmpty(pdfUrl) # "" /\ trim(OrEmpty(pdfUrl)) # ""
    THEN UseOverride(NewURL(OrEmpty(pdfUrl), pageUrl))
    ELSE IF looksLikePdf(pageUrl, Absent, Absent) THEN Res("page", pageUrl, "", <<>>)
    ELSE UseDirect(deriveDirectPdfUrl(pageUrl))

\* --- the summary step
\* JSON.parse on the texts drawn below: "{}" and an object of one member whose
\* value is a string without escapes, written without white space; anything
\* else in the inputs is no JSON and makes JSON.parse throw (ok FALSE).  key is
\* "" for the object without members.
JSONParse(s) ==
    LET k == IndexOfAny(s, {"\""}, 3)
    IN  IF s = "{}" THEN [ok |-> TRUE, key |-> "", value |-> ""]
        ELSE IF /\ startsWith(s, "{\"") /\ endsWith(s, "\"}")
                /\ k > 3 /\ k + 2 <= Len(s) - 2
                /\ SubSeq(s, k, k + 2) = "\":\""
                /\ IndexOfAny(s, {"\"", "\\"}, k + 3) = Len(s) - 1
        THEN [ok |-> TRUE, key |-> SubSeq(s, 3, k - 1),
              value |-> SubSeq(s, k + 3, Len(s) - 2)]
        ELSE [ok |-> FALSE, key |-> "", value |-> ""]

\* requestSummaryText once requestTextFromOpenAI has returned rawText.  The
\* summary member of the parsed text, trimmed, replaces the trimmed text when
\* it is not blank; a missing member is "" through `|| ""`, and a text that
\* JSON.parse rejects is kept.
requestSummaryText(rawText) ==
    LET summary == trim(rawText)
        parsed == JSONParse(trim(rawText))
    IN  IF /\ startsWith(summary, "{")
           /\ parsed.ok /\ parsed.key = "summary" /\ trim(parsed.value) # ""
        THEN trim(parsed.value)
        ELSE summary

\* --- the resolution run on its own
MaxAnchors == 2       \* <a href> elements of a page
MaxMetas == 1         \* citation_pdf_url elements of a page
MaxLinks == 1         \* <link> elements of a page

\* Page URLs: a plain page, a PDF, one page of each known site, a page of a
\* known site that no rule covers, and a string that is no URL.
PageUrls ==
    {"https://host/x/", "https://host/x/Paper.PDF",
     "https://arxiv.org/abs/2301.00001", "https://aclanthology.org/2020.acl-main.1/",
     "https://openreview.net/forum?id=abc", "https://dl.acm.org/doi/10.1145/1",
     "https://arxiv.org/list/cs", "page"}

\* Overrides: none (the orchestrator sends null for an empty one), blank,
\* relative, absolute, and one new URL rejects.
Overrides ==
    {Absent, Given("  "), Given("paper.pdf"), Given("https://Other/doc"),
     Given("http://")}

\* Anchors of a page.
Anchors ==
    {El("a", "paper.pdf", "download", ""), El("a", "Final.PDF ", "", ""),
     El("a", "view", "Full text (PDF)", ""), El("a", "/x/view", "PDF", ""),
     El("a", "/pdf/1", "", ""), El("a", "get", "", "Application/PDF"),
     El("a", "about", "About", ""), El("a", "", "PDF", ""),
     El("a", "http://", "PDF", "")}

SeqsUpTo(S, n) == UNION {[1..k -> S] : k \in 0..n}

\* Pages: their anchors, citation metadata and link elements.
Pages ==
    {Page(a, m, l) :
        a \in SeqsUpTo(Anchors, MaxAnchors),
        m \in SeqsUpTo({El("meta", "", "", ""), El("meta", "/cite/1.pdf", "", ""),
                        El("meta", "/x/view", "", ""), El("meta", "cite", "", "")},
                       MaxMetas),
        l \in SeqsUpTo({El("link", "alt.pdf", "", "application/pdf"),
                        El("link", "view", "", "application/pdf"),
                        El("link", "style.pdf", "", "text/css"),
                        El("link", "", "", "Application/PDF")}, MaxLinks)}

\* URL arguments of looksLikePdf: every letter case of the suffix after three
\* beginnings, and URLs without the suffix.
LookUrls ==
    {s \o "." \o p \o d \o f :
        s \in {"https://host/a", "a b", ""}, p \in {"p", "P"}, d \in {"d", "D"},
        f \in {"f", "F"}}
    \cup {"https://host/a", "https://host/a.pdf?v=2", "https://host/PDF/1",
          "https://host/a?format=PDF", "https://host/a?download=1",
          "https://host/a.pd", "https://host/apdf", ""}

\* Arguments of deriveDirectPdfUrl: for each rule a page it covers and pages
\* that meet only one of its conditions, hosts in another letter case, below a
\* subdomain and with a longer name, and a string that is no URL.
DirectUrls ==
    {"https://arxiv.org/abs/2301.00001", "https://export.arxiv.org/abs/2301.00001v2/",
     "https://ARXIV.org/abs/x.pdf", "https://notarxiv.org/abs/1",
     "https://arxiv.org/abs/", "https://arxiv.org/list/cs",
     "https://host/abs/2301.00001", "https://aclanthology.org/2020.acl-main.1/",
     "https://aclanthology.org/", "https://host/2020.acl-main.1/",
     "https://openreview.net/forum?id=abc&x=1", "https://openreview.net/forum?x=1",
     "https://host/forum?id=abc", "https://dl.acm.org/doi/10.1145/1",
     "https://dl.acm.org/doi/abs/10.1145/1", "https://sub.dl.acm.org/doi/10.1145/1",
     "https://dl.acm.org/toc", "https://host/doi/10.1145/1", "page"}

\* Raw responses of the summary request: plain text, blank text, objects with a
\* summary member that is filled, padded, empty or blank, objects without
\* one, a text that only begins like an object, and an object within spaces.
SummaryRaws ==
    {"S", " S ", "", "  ", "{\"summary\":\"S\"}", "{\"summary\":\" S \"}",
     "{\"summary\":\"\"}", "{\"summary\":\"  \"}", "{}", "{\"title\":\"T\"}",
     "{oops", " {\"summary\":\"S\"} ", " {\"summary\":\"\"} "}

sysVars == <<bgVars, offVars, toBg, toOff>>

\* Either runSummaryJob is about to resolve the PDF of a context, or
\* looksLikePdf is about to be called, with each optional argument given or
\* left out, or deriveDirectPdfUrl is about to be called, or the summary
\* request of a run has returned its text.  The orchestrator and the pipeline are left out: their variables
\* keep their initial values.
InitPdf ==
    /\ bgJob = NoJob
    /\ store = NoJob
    /\ stq = <<>>
    /\ h = [t \in Tags |-> Idle]
    /\ nextId = 0
    /\ restarts = 0
    /\ events = 0
    /\ hasDoc = FALSE
    /\ dJob = NoDJob
    /\ dCancel = FALSE
    /\ runs = [r \in RunIds |-> NoRun]
    /\ nextRun = 0
    /\ toBg = <<>>
    /\ toOff = <<>>
    /\ \/ \E pageUrl \in PageUrls, pdfUrl \in Overrides :
             pdf = [pc |-> "resolve", pageUrl |-> pageUrl, pdfUrl |-> pdfUrl]
       \/ \E url \in LookUrls,
             text \in {Absent, Given(""), Given("Get PDF"), Given("About")},
             mime \in {Absent, Given(""), Given("Application/PDF"), Given("text/html")} :
             pdf = [pc |-> "look", url |-> url, anchorText |-> text, mimeType |-> mime]
       \/ \E pageUrl \in DirectUrls : pdf = [pc |-> "derive", pageUrl |-> pageUrl]
       \/ \E rawText \in SummaryRaws : pdf = [pc |-> "summarize", rawText |-> rawText]

\* runSummaryJob resolves without the network, or findPdfUrl requests the page
\* (out.stage is then "fetch").
PdfResolve ==
    /\ pdf.pc = "resolve"
    /\ pdf' = [pc |-> "resolved", pageUrl |-> pdf.pageUrl, pdfUrl |-> pdf.pdfUrl,
               fetched |-> FALSE, ok |-> FALSE, html |-> NoPage,
               out |-> ResolveLocal(pdf.pageUrl, pdf.pdfUrl)]
    /\ UNCHANGED sysVars

\* The page request returns, with the page when response.ok, and findPdfUrl
\* scans the page.
PdfFetched(ok, html) ==
    /\ pdf.pc = "resolved"
    /\ pdf.out.stage = "fetch"
    /\ ok \/ html = NoPage
    /\ pdf' = [pdf EXCEPT !.pc = "done", !.fetched = TRUE, !.ok = ok, !.html = html,
                          !.out = Discover(pdf.pageUrl, ok, html)]
    /\ UNCHANGED sysVars

\* looksLikePdf returns.
PdfLook ==
    /\ pdf.pc = "look"
    /\ pdf' = [pc |-> "looked", url |-> pdf.url, anchorText |-> pdf.anchorText,
               mimeType |-> pdf.mimeType,
               out |-> looksLikePdf(pdf.url, pdf.anchorText, pdf.mimeType)]
    /\ UNCHANGED sysVars

\* deriveDirectPdfUrl returns; "" is null.
PdfDerive ==
    /\ pdf.pc = "derive"
    /\ pdf' = [pc |-> "derived", pageUrl |-> pdf.pageUrl,
               out |-> deriveDirectPdfUrl(pdf.pageUrl)]
    /\ UNCHANGED sysVars

\* requestSummaryText returns and runSummaryJob tests the summary: an empty
\* one throws "要約を取得できませんでした" ("summaryFailed").
PdfSummarize ==
    /\ pdf.pc = "summarize"
    /\ pdf' = [pc |-> "summarized", rawText |-> pdf.rawText,
               summary |-> requestSummaryText(pdf.rawText),
               err |-> IF requestSummaryText(pdf.rawText) = "" THEN "summaryFailed"
                       ELSE ""]
    /\ UNCHANGED sysVars

NextPdf ==
    \/ PdfResolve
    \/ \E ok \in BOOLEAN, html \in Pages : PdfFetched(ok, html)
    \/ PdfLook
    \/ PdfDerive
    \/ PdfSummarize

SpecPdf == InitPdf /\ [][NextPdf]_vars

\* ============================================================= claims
Running(job) == job.id # 0 /\ job.status = "running"

\* The runs the delegate is executing.
ActiveRuns == {r \in RunIds : runs[r].pc \notin {"none", "done"}}

\* The records a job lives in: memory, storage, and every write on its way.
Records == {bgJob, store} \cup {stq[i].val : i \in {k \in 1..Len(stq) : stq[k].op = "set"}}

\* C1: while the orchestrator's current job is running, a start request with
\* every field is answered AlreadyRunning, and no step taken in such a state
\* hands out a job id or begins a start handler.
C1_StartWhileRunningRejected ==
    [][Running(bgJob) =>
          /\ StartDecision(bgJob, FullPayload) = MsgAlreadyRunning
          /\ nextId' = nextId
          /\ \A j \in JobIds : h[StartTag(j)].pc = "idle" => h'[StartTag(j)].pc = "idle"]_vars

\* A running job, with a job id and a request still to spend: the request is
\* refused by the job's status alone.
C1_Witness ==
    /\ Running(bgJob)
    /\ nextId < MaxJobs /\ events < MaxEvents
    /\ StartDecision(bgJob, FullPayload) = MsgAlreadyRunning

C3_TerminalIsFinal ==
    [][/\ (bgJob.status \in Terminal /\ bgJob'.id = bgJob.id)
            => bgJob'.status = bgJob.status
       /\ (store.status \in Terminal /\ store'.id = store.id)
            => store'.status = store.status]_vars

\* C4: a run the delegate began after the orchestrator had accepted a cancel
\* request for its job attempts no network call and, unless the PDF address
\* it was given is unusable, reports nothing but aborted and leaves the job
\* aborted with the cancellation reason.
C4_CancelBeforeFirstStep ==
    \A r \in RunIds :
        (runs[r].early /\ runs[r].exc # "resolveFailed") =>
            /\ runs[r].calls = <<>>
            /\ \A i \in 1..Len(runs[r].reports) : runs[r].reports[i] = "aborted"
            /\ (bgJob.id = runs[r].job /\ bgJob.status \in Terminal)
                  => bgJob.status = "aborted" /\ bgJob.error = DEFAULT_CANCEL_MESSAGE

\* C5: a record that is success, error or aborted holds no credential, in
\* memory, in storage and in every write on its way to storage.
C5_TerminalHasNoCredential ==
    \A rec \in Records : rec.status \in Terminal => ~rec.apiKey

\* Each way a job ends, landed in storage: a delegate result, a failed
\* hand-off, a failed resume, an inconsistent resume.
C5_Witness ==
    /\ store = bgJob /\ bgJob.status \in Terminal /\ ~bgJob.apiKey
    /\ bgJob.error \in {"summaryFailed", MsgNoOffscreen, MsgResumeImpossible}

\* C6: a job's record holds a result exactly when its status is success, in
\* memory, in storage and in every write on its way to storage.
C6_ResultIffSuccess ==
    \A rec \in Records : rec.id # 0 => (rec.result # NoResult <=> rec.status = "success")

\* A success with its result, landed in storage.
C6_Witness ==
    store = bgJob /\ bgJob.status = "success" /\ bgJob.result = TheResult

\* C7: the log of a job never holds more than LOG_LIMIT entries, in memory
\* or in storage.
C7_LogsBounded ==
    Len(bgJob.logs) <= LOG_LIMIT /\ Len(store.logs) <= LOG_LIMIT

\* C8: a job persisted as running is eventually success, error or aborted,
\* or its record is removed or replaced.
C8_RunningJobSettles ==
    \A j \in JobIds :
        (store.id = j /\ store.status = "running")
            ~> (store.id # j \/ store.status \in Terminal)

\* C9: loadPersistedJob over a running record that has its credential keeps
\* the id and the status, appends the resumption entry and writes the record;
\* the write lands; the message it then sends is a start with the resume flag
\* for the id it loaded; a delegate executing that id answers ok and begins
\* no run.
C9_ResumeOnRestart ==
    [][/\ (HeadIs(LoadTag, "get") /\ Running(store) /\ store.apiKey
              /\ h'[LoadTag].pc # "get")
            => /\ bgJob'.id = store.id /\ bgJob'.status = "running"
               /\ bgJob'.logs = Append(store.logs, Info("resumed"))
               /\ stq' # <<>> /\ stq'[Len(stq')] = StOp("set", bgJob', LoadTag)
               /\ h'[LoadTag].pc = "commit"
       /\ (HeadIs(LoadTag, "commit") /\ h'[LoadTag].pc = "ensure")
            => /\ store'.id = h[LoadTag].job /\ store'.status = "running"
               /\ store'.logs[Len(store'.logs)] = Info("resumed")
       /\ (h[LoadTag].pc = "ensure" /\ h'[LoadTag].pc = "send")
            => /\ Len(toOff') = Len(toOff) + 1
               /\ toOff'[Len(toOff')].type = "start"
               /\ toOff'[Len(toOff')].resume
               /\ toOff'[Len(toOff')].job = h[LoadTag].job
       /\ (/\ hasDoc /\ toOff # <<>> /\ toOff' = Tail(toOff)
           /\ Head(toOff).type = "start" /\ Head(toOff).resume
           /\ dJob.id = Head(toOff).job)
            => /\ nextRun' = nextRun /\ runs' = runs
               /\ toBg' = Append(toBg, RespTo(Head(toOff), TRUE, ""))]_vars

\* C9 but for the id of the message: loadPersistedJob over a running record
\* that has its credential keeps the id and the status, appends the
\* resumption entry and writes the record; the write lands; the message it
\* then sends is a start with the resume flag for the orchestrator's current
\* job; a delegate executing that id answers ok and begins no run.
C9_ResumeForCurrentJob ==
    [][/\ (HeadIs(LoadTag, "get") /\ Running(store) /\ store.apiKey
              /\ h'[LoadTag].pc # "get")
            => /\ bgJob'.id = store.id /\ bgJob'.status = "running"
               /\ bgJob'.logs = Append(store.logs, Info("resumed"))
               /\ stq' # <<>> /\ stq'[Len(stq')] = StOp("set", bgJob', LoadTag)
               /\ h'[LoadTag].pc = "commit"
       /\ (HeadIs(LoadTag, "commit") /\ h'[LoadTag].pc = "ensure")
            => /\ store'.id = h[LoadTag].job /\ store'.status = "running"
               /\ store'.logs[Len(store'.logs)] = Info("resumed")
       /\ (h[LoadTag].pc = "ensure" /\ h'[LoadTag].pc = "send")
            => /\ Len(toOff') = Len(toOff) + 1
               /\ toOff'[Len(toOff')].type = "start"
               /\ toOff'[Len(toOff')].resume
               /\ toOff'[Len(toOff')].job = bgJob.id
       /\ (/\ hasDoc /\ toOff # <<>> /\ toOff' = Tail(toOff)
           /\ Head(toOff).type = "start" /\ Head(toOff).resume
           /\ dJob.id = Head(toOff).job)
            => /\ nextRun' = nextRun /\ runs' = runs
               /\ toBg' = Append(toBg, RespTo(Head(toOff), TRUE, ""))]_vars

\* C10: loadPersistedJob over a running record without its credential marks
\* the job aborted with the message that it could not be resumed, appends
\* that message to the log, writes the record and sends nothing; the write
\* lands and the handler ends without a message to the delegate.
C10_AbortOnLostCredential ==
    [][/\ (HeadIs(LoadTag, "get") /\ Running(store) /\ ~store.apiKey
              /\ h'[LoadTag].pc # "get")
            => /\ bgJob'.id = store.id /\ bgJob'.status = "aborted"
               /\ bgJob'.error = MsgResumeImpossible
               /\ bgJob'.logs = Append(store.logs, Info(MsgResumeImpossible))
               /\ stq' # <<>> /\ stq'[Len(stq')] = StOp("set", bgJob', LoadTag)
               /\ h'[LoadTag].pc = "abort"
               /\ toOff' = toOff
       /\ (h[LoadTag].pc = "abort" /\ h'[LoadTag].pc # "abort")
            => /\ h'[LoadTag].pc \in {"idle", "get"}
               /\ toOff' = toOff
               /\ h'[LoadTag].pc = "idle" =>
                     /\ store'.id = h[LoadTag].job /\ store'.status = "aborted"
                     /\ store'.error = MsgResumeImpossible]_vars

\* The aborted record has landed in storage and the delegate was never
\* addressed: no document, no run, no message.
C10_Witness ==
    /\ h[LoadTag].pc = "idle"
    /\ store.status = "aborted" /\ store.error = MsgResumeImpossible
    /\ store.logs = <<Info("started"), Info(MsgResumeImpossible)>>
    /\ bgJob = store
    /\ ~hasDoc /\ nextRun = 0 /\ toOff = <<>> /\ toBg = <<>>

\* A step in which a cancel-summary handler begins.
CancelBegins == h[CancelTag].pc # "commit" /\ h'[CancelTag].pc = "commit"

\* C11: a cancel request is answered NoActiveJob when there is no job or the
\* job is not running, and AlreadyRequested when the running job already has
\* its cancel flag; no step taken in such a state begins a cancel handler, and
\* the request itself leaves the job, the store, the pending storage
\* operations and the delegate's flag as they were.
C11_CancelRejected ==
    [][/\ ~Running(bgJob) => CancelDecision(bgJob) = MsgNoActiveJob
       /\ (Running(bgJob) /\ bgJob.cancelRequested) =>
              CancelDecision(bgJob) = MsgAlreadyRequested
       /\ (~Running(bgJob) \/ bgJob.cancelRequested) =>
              /\ ~CancelBegins
              /\ ReqCancel => UNCHANGED <<bgJob, store, stq, dCancel, toOff>>]_vars

\* The running job has its cancel flag, the first cancel handler has answered,
\* and one more request would be counted.
C11_Witness ==
    /\ Running(bgJob) /\ bgJob.cancelRequested
    /\ h[CancelTag].pc = "replied"
    /\ events < MaxEvents

\* The network calls a run has made, as a set.
CallsOf(r) == {runs[r].calls[i] : i \in 1..Len(runs[r].calls)}

\* C12: while the delegate's cancel flag is set for the job a run executes,
\* the run starts no pipeline step (page fetch, download, upload, title,
\* summary): the only call it may still make is the delete of the uploaded
\* file, and a run that ends holding a file handle has attempted that delete.
C12_NoStepAfterCancel ==
    [][\A r \in ActiveRuns :
          (dCancel /\ dJob.id = runs[r].job) =>
              /\ \/ runs'[r].calls = runs[r].calls
                 \/ runs[r].file /\ runs'[r].calls = Append(runs[r].calls, "delete")
              /\ (runs'[r].pc = "done" /\ runs'[r].file) =>
                     runs'[r].calls[Len(runs'[r].calls)] = "delete"]_vars

\* A run cancelled after the upload and before the summary: it reported
\* aborted, never asked for the summary, and its last call was the delete.
C12_Witness ==
    \E r \in RunIds :
        /\ runs[r].pc = "done" /\ runs[r].file
        /\ runs[r].reports = <<"aborted">>
        /\ "summary" \notin CallsOf(r)
        /\ runs[r].calls[Len(runs[r].calls)] = "delete"

\* C13: a run that observed the cancel flag at one of its checks (it holds the
\* cancellation reason as the exception leaving it or as the error of its
\* catch block) reports no error outcome, and the job it ran, once ended in the
\* orchestrator with the cancellation reason, is aborted.
C13_CancelEndsAborted ==
    \A r \in RunIds :
        (runs[r].exc = DEFAULT_CANCEL_MESSAGE \/ runs[r].err = DEFAULT_CANCEL_MESSAGE) =>
            /\ \A i \in 1..Len(runs[r].reports) : runs[r].reports[i] # "error"
            /\ \A job \in Records :
                  (job.id = runs[r].job /\ job.error = DEFAULT_CANCEL_MESSAGE) =>
                      job.status = "aborted"

\* What the store holds once the operations in q have been applied to it.
StoreAfter(q) ==
    LET W == {i \in 1..Len(q) : q[i].op # "get"}
    IN  IF W = {} THEN store
        ELSE Applied(q[CHOOSE i \in W : \A k \in W : k <= i])

\* C14: every clear leaves no job in memory and a store that ends empty; a
\* clear taken where an earlier clear's effect stands (no job in memory, the
\* store empty or about to be emptied) changes neither the job in memory nor
\* the store nor what the store will hold, begins no handler and sends
\* nothing; and the removal it queued leaves the store empty.
C14_ClearIdempotent ==
    [][/\ ReqClear => (bgJob' = NoJob /\ StoreAfter(stq)' = NoJob)
       /\ (ReqClear /\ bgJob = NoJob /\ StoreAfter(stq) = NoJob) =>
              /\ bgJob' = bgJob /\ store' = store
              /\ StoreAfter(stq)' = StoreAfter(stq)
              /\ UNCHANGED <<h, offVars, toBg, toOff>>
       /\ (StorageApply /\ Head(stq).op = "remove") => store' = NoJob]_vars

\* Two clears in a row after a job had been created: both removals are still
\* queued and no job is in memory.
C14_Witness ==
    /\ nextId >= 1 /\ bgJob = NoJob
    /\ \E i \in 1..(Len(stq) - 1) : stq[i].op = "remove" /\ stq[i + 1].op = "remove"

\* The oldest message to the orchestrator is a delegate log or result whose
\* job id is not the id of the job in memory (another job, or none).
StaleHead ==
    /\ toBg # <<>>
    /\ Head(toBg).type \in {"log", "result"}
    /\ Head(toBg).job # bgJob.id

\* C15: the step that handles a delegate log or result message for a job other
\* than the one in memory leaves the job record (logs and status with it), the
\* store and the pending storage operations unchanged and begins no handler,
\* so no tab is opened and no job comes back after a clear.
C15_StaleMessageIgnored ==
    [][(StaleHead /\ ((\E how \in Hows : BgLog(how)) \/ BgResult)) =>
           UNCHANGED <<bgJob, store, stq, h>>]_vars

\* A log or result message of job 1 is about to be handled while job 2 is the
\* job in memory.
C15_Witness ==
    /\ StaleHead
    /\ h[LogTag].pc = "idle" /\ h[ResultTag].pc = "idle"
    /\ Head(toBg).job = 1
    /\ bgJob.id = 2

\* C16: while no write to the store is on its way, the answer to a status
\* query is the job held in the store.
C16_StatusIsPersisted ==
    (\A i \in 1..Len(stq) : stq[i].op = "get") => StatusAnswer = store

\* A step that hands out a job id or begins a start handler.
StartBegins ==
    \/ nextId' # nextId
    \/ \E j \in JobIds : h[StartTag(j)].pc # "commit" /\ h'[StartTag(j)].pc = "commit"

\* C17: whatever the job in memory (none, running or ended), a start request
\* that lacks one of pageUrl, project, scrapboxBase, model, apiKey is answered
\* InvalidRequest, and the request leaves every variable as it was: no job id
\* is handed out, nothing is written or sent, the job in memory stays.
C17_MissingFieldRejected ==
    [][\A p \in Payloads \ {FullPayload} :
          /\ StartDecision(bgJob, p) = MsgMissingFields
          /\ ReqStart(p) => (~StartBegins /\ UNCHANGED vars)]_vars

\* A job that ended is in memory while a start with every field would still
\* be accepted: an incomplete one is the only thing that keeps the record.
C17_Witness ==
    /\ bgJob.id # 0 /\ bgJob.status \in Terminal
    /\ nextId < MaxJobs /\ events < MaxEvents
    /\ StartDecision(bgJob, FullPayload) = "accept"
    /\ \E p \in Payloads : StartDecision(bgJob, p) = MsgMissingFields

C19_DuplicateStartSucceeds ==
    [][(OffStart /\ dJob.id # 0 /\ Head(toOff).job = dJob.id) =>
           /\ nextRun' = nextRun /\ runs' = runs /\ dJob' = dJob
           /\ toBg'[Len(toBg')].type = "resp" /\ toBg'[Len(toBg')].ok]_vars

\* How many times run r has attempted the delete of its uploaded file.
Deletes(r) == Cardinality({i \in 1..Len(runs[r].calls) : runs[r].calls[i] = "delete"})

\* C20: a run attempts the delete of the uploaded file at most once and only
\* when the upload returned a file handle; a run that has ended holding a
\* handle has attempted it exactly once, and the delegate is idle only when no
\* run is active; what the run does when the delete returns does not depend on
\* whether the delete succeeded and adds no outcome report.
C20_DeleteExactlyOnce ==
    /\ dJob.id = 0 => ActiveRuns = {}
    /\ \A r \in RunIds :
          /\ Deletes(r) <= 1
          /\ Deletes(r) = 1 => runs[r].file
          /\ (runs[r].pc = "done" /\ runs[r].file) => Deletes(r) = 1
          /\ runs[r].pc = "netDelete" =>
                /\ OnNet(r, runs[r], TRUE) = OnNet(r, runs[r], FALSE)
                /\ OnNet(r, runs[r], FALSE).run.reports = runs[r].reports
                /\ OnNet(r, runs[r], FALSE).run.exc = runs[r].exc

\* A run whose summary request failed after the upload has ended: it reported
\* error, attempted the delete once, and the delegate is idle.
C20_Witness ==
    \E r \in RunIds :
        /\ runs[r].pc = "done" /\ runs[r].file /\ runs[r].err = "summaryFailed"
        /\ runs[r].reports = <<"error">>
        /\ Deletes(r) = 1
        /\ dJob.id = 0

\* The outcome reports of run r that are still on their way to the
\* orchestrator.
ResultsInFlight(r) ==
    {toBg[i] : i \in {k \in 1..Len(toBg) : toBg[k].type = "result" /\ toBg[k].run = r}}

\* C21: a run whose upload failed (or returned no file id) holds no file
\* handle, attempts no delete and makes no title or summary request; once its
\* catch block has logged the failure it has reported error, it reports
\* nothing but error, and the report it awaits carries the upload failure;
\* while the worker has not been restarted, the job's record, once ended, is
\* error with the upload failure as its error.
C21_UploadFailureEndsError ==
    \A r \in RunIds :
        runs[r].err = "uploadFailed" =>
            /\ ~runs[r].file
            /\ CallsOf(r) \cap {"delete", "title", "summary"} = {}
            /\ runs[r].pc \in {"cres", "done"} => runs[r].reports # <<>>
            /\ \A i \in 1..Len(runs[r].reports) : runs[r].reports[i] = "error"
            /\ \A m \in ResultsInFlight(r) :
                  m.status = "error" /\ (m.awaited => m.err = "uploadFailed")
            /\ restarts = 0 =>
                  \A job \in Records :
                      (job.id = runs[r].job /\ job.status \in Terminal) =>
                          (job.status = "error" /\ job.error = "uploadFailed")

\* The upload of a job failed, its run has ended, and memory and store hold
\* the job as error with the upload failure.
C21_Witness ==
    \E r \in RunIds :
        /\ runs[r].err = "uploadFailed" /\ runs[r].pc = "done"
        /\ "upload" \in CallsOf(r)
        /\ bgJob.id = runs[r].job /\ bgJob.status = "error" /\ bgJob.error = "uploadFailed"
        /\ store = bgJob

\* The failure messages of the pipeline steps, and the calls that come after
\* each step in the pipeline.
StepFailures == {"resolveFailed", "downloadFailed", "uploadFailed", "titleFailed", "summaryFailed"}

LaterCalls(msg) ==
    CASE msg = "resolveFailed" -> {"download", "upload", "title", "summary", "delete"}
      [] msg = "downloadFailed" -> {"upload", "title", "summary", "delete"}
      [] msg = "uploadFailed" -> {"title", "summary", "delete"}
      [] msg = "titleFailed" -> {"summary"}
      [] msg = "summaryFailed" -> {}

\* The step failure run r met, if any: before the try block it is the
\* exception leaving the run, inside it is the error its catch block holds.
FailureOf(r) ==
    IF runs[r].exc \in StepFailures THEN runs[r].exc
    ELSE IF runs[r].err \in StepFailures THEN runs[r].err
    ELSE ""

\* C22: a run in which a pipeline step failed has made none of the calls that
\* follow that step (after a failed download: no upload); once it has ended
\* it has reported; it reports nothing but error, and the report sent for
\* the failure (awaited from the catch block, or sent when the exception
\* leaves the run) carries the failing step's message; while the worker has
\* not been restarted, the job's record, once ended, is error with that
\* message.
C22_StepFailureStopsPipeline ==
    \A r \in RunIds :
        FailureOf(r) # "" =>
            /\ CallsOf(r) \cap LaterCalls(FailureOf(r)) = {}
            /\ runs[r].pc = "done" => runs[r].reports # <<>>
            /\ \A i \in 1..Len(runs[r].reports) : runs[r].reports[i] = "error"
            /\ \A m \in ResultsInFlight(r) :
                  /\ m.status = "error"
                  /\ (m.awaited \/ runs[r].exc \in StepFailures) => m.err = FailureOf(r)
            /\ restarts = 0 =>
                  \A job \in Records :
                      (job.id = runs[r].job /\ job.status \in Terminal) =>
                          (job.status = "error" /\ job.error = FailureOf(r))

\* The download of a job failed: its run has ended without an upload, and
\* memory and store hold the job as error with the download failure.
C22_Witness ==
    \E r \in RunIds :
        /\ runs[r].exc = "downloadFailed" /\ runs[r].pc = "done"
        /\ "download" \in CallsOf(r) /\ "upload" \notin CallsOf(r)
        /\ bgJob.id = runs[r].job /\ bgJob.status = "error" /\ bgJob.error = "downloadFailed"
        /\ store = bgJob

\* C23: the record of a job that is error with a step's failure message as its
\* error has a log entry carrying that message.
C23_FailureIsLogged ==
    \A job \in Records :
        (job.status = "error" /\ job.error \in StepFailures) =>
            \E i \in 1..Len(job.logs) : job.logs[i].text = job.error

\* What a status query shows of a job's outcome.
OutcomeOf(job) == <<job.status, job.error, job.result>>

\* The job in memory was loaded by the restarted worker as a job that had
\* ended in success before the restart: the reload is over, it did not take
\* the resume branch, and the loaded log holds the delegate's last pipeline
\* entry, which the delegate sends only once its success report was answered,
\* that is after the success record was in the store.
LoadedEnded ==
    /\ restarts >= 1 /\ h[LoadTag].pc = "idle"
    /\ bgJob.id # 0 /\ bgJob.status \in Terminal
    /\ \A i \in 1..Len(bgJob.logs) : bgJob.logs[i].text # "resumed"
    /\ \E i \in 1..Len(bgJob.logs) : bgJob.logs[i].text = "done"

\* C24: when the restarted worker reads an ended job from the store, the job
\* in memory becomes that record and nothing is written; afterwards the
\* outcome a status query shows stays the same for as long as the job in
\* memory is that job (until a clear or an accepted start).
C24_EndedJobSurvivesRestart ==
    [][/\ (LoadAfterGet /\ store.id # 0 /\ store.status \in Terminal) =>
              (bgJob' = store /\ store' = store /\ stq' = Tail(stq))
       /\ (LoadedEnded /\ bgJob'.id = bgJob.id) =>
              OutcomeOf(StatusAnswer)' = OutcomeOf(StatusAnswer)]_vars

\* The place of a log text in the order in which one run emits its log
\* messages (0: not a text the delegate emits).
EmitRank(text) ==
    CASE text = "resolveStart" -> 1
      [] text = "resolved" -> 2
      [] text = "downloaded" -> 3
      [] text = "uploaded" -> 4
      [] text = "title" -> 5
      [] text = "summary" -> 6
      [] text = "opening" -> 7
      [] text = "done" -> 8
      [] text \in {"uploadFailed", "titleFailed", "summaryFailed", MsgPortClosed,
                   DEFAULT_CANCEL_MESSAGE} -> 9
      [] text = "deleted" -> 10
      [] OTHER -> 0

FromDelegate(entry) == EmitRank(entry.text) > 0

\* The delegate's entries in a job's log, in log order.
DelegateLogs(job) == SelectSeq(job.logs, FromDelegate)

\* The places in the delegate's entries where a later-emitted text of a run
\* is followed by an earlier-emitted (or the same) one.
Descents(job) ==
    {i \in 1..(Len(DelegateLogs(job)) - 1) :
        EmitRank(DelegateLogs(job)[i].text) >= EmitRank(DelegateLogs(job)[i + 1].text)}

RunsOf(j) == {r \in RunIds : runs[r].job = j}

\* C25: in every record of a job the delegate's entries stand in the order of
\* emission: those of one run in the order the run emits them, and the
\* entries of a later run of the same job after those of the earlier run, so
\* the order goes back at most once for a job with two runs and never for a
\* job with one.
C25_LogOrderKept ==
    \A job \in Records :
        job.id # 0 =>
            \/ Descents(job) = {}
            \/ Cardinality(Descents(job)) < Cardinality(RunsOf(job.id))

\* A log in which a cancel request's entry stands between entries of the
\* delegate, and the delegate's entries are at least three.
C25_Witness ==
    /\ Len(DelegateLogs(bgJob)) >= 3
    /\ \E i, k, l \in 1..Len(bgJob.logs) :
          /\ i < k /\ k < l
          /\ FromDelegate(bgJob.logs[i])
          /\ bgJob.logs[k].text = "cancelRequested"
          /\ FromDelegate(bgJob.logs[l])

\* The writes and removals of the job record that were called and have not
\* completed.
WritesInFlight == {i \in 1..Len(stq) : stq[i].op \in {"set", "remove"}}

\* C26: at most one write or removal of the job record is in flight.
C26_OneWriteInFlight == Cardinality(WritesInFlight) <= 1

\* ------------------------------------------------------------- C27
\* The stages of the resolution, read off a resolution that has passed its
\* local part: whether an override was supplied, what it resolves to against
\* the page URL, whether the page URL looks like a PDF, and what the known-site
\* rules give for it.
Resolving == pdf.pc \in {"resolved", "done"}
Supplied == trim(OrEmpty(pdf.pdfUrl)) # ""
OverrideUrl == NewURL(OrEmpty(pdf.pdfUrl), pdf.pageUrl)
PageLooksPdf == looksLikePdf(pdf.pageUrl, Absent, Absent)
RuleUrl == deriveDirectPdfUrl(pdf.pageUrl)
PageRequested == pdf.out.stage = "fetch" \/ pdf.fetched
EndedWith(url) == pdf.pc = "resolved" /\ pdf.out.url = url /\ ~PageRequested

\* C27: the resolution takes the override resolved against the page URL when
\* one is supplied, else the page URL when it looks like a PDF, else the URL of
\* the known-site rules, and in each of these cases ends without requesting the
\* page; the page is requested only when no override is supplied, the page URL
\* does not look like a PDF and no rule applies, and the result is then the
\* one of HTML discovery.
C27_ResolutionOrder ==
    Resolving =>
        /\ (Supplied /\ OverrideUrl.ok) => EndedWith(toString(OverrideUrl))
        /\ Supplied => ~PageRequested
        /\ (~Supplied /\ PageLooksPdf) => EndedWith(pdf.pageUrl)
        /\ (~Supplied /\ ~PageLooksPdf /\ RuleUrl # "") => EndedWith(RuleUrl)
        /\ PageRequested => (~Supplied /\ ~PageLooksPdf /\ RuleUrl = "")
        /\ (~Supplied /\ ~PageLooksPdf /\ RuleUrl = "") => PageRequested
        /\ pdf.fetched => pdf.out.stage = "html"

\* A page of a known site with no override: the rule gave the URL and the
\* page was not requested.
C27_Witness ==
    /\ pdf.pc = "resolved"
    /\ ~Supplied /\ ~PageLooksPdf /\ RuleUrl # ""
    /\ pdf.out.url = RuleUrl

\* ------------------------------------------------------------- C28
\* A discovery that has scanned a page it received.
Discovered == pdf.pc = "done" /\ pdf.fetched /\ pdf.ok

EndsPdf(url) == endsWith(toLowerCase(url), ".pdf")
ResolvedOf(e) == toString(NewURL(e.href, pdf.pageUrl))

\* An element that names a URL: an anchor or citation metadata with a value that
\* resolves, a link element that in addition is typed application/pdf.
Names(e) ==
    /\ e.href # ""
    /\ NewURL(e.href, pdf.pageUrl).ok
    /\ e.kind = "link" => toLowerCase(e.type) = "application/pdf"

ExactOnPage ==
    \E i \in 1..Len(Elements(pdf.html)) :
        Names(Elements(pdf.html)[i]) /\ EndsPdf(ResolvedOf(Elements(pdf.html)[i]))

\* C28: when an anchor, a citation metadata element or a PDF-typed link
\* element of the page resolves to a URL ending in .pdf in any letter case,
\* discovery returns a URL with that suffix.
C28_ExactSuffixWins == (Discovered /\ ExactOnPage) => EndsPdf(pdf.out.url)

\* The spec's example: an anchor without the suffix whose text contains PDF,
\* then an anchor ending in .pdf; the later one is returned.
C28_Witness ==
    /\ Discovered
    /\ Len(pdf.html.anchors) = 2
    /\ ~EndsPdf(ResolvedOf(pdf.html.anchors[1]))
    /\ includes(toLowerCase(pdf.html.anchors[1].text), "pdf")
    /\ EndsPdf(ResolvedOf(pdf.html.anchors[2]))
    /\ pdf.out.url = ResolvedOf(pdf.html.anchors[2])

\* ------------------------------------------------------------- C29
\* An element whose URL is accumulated when it is no exact match: one that
\* names a URL and, for an anchor, passes looksLikePdf.
Listed(e) ==
    /\ Names(e)
    /\ e.kind = "a" =>
          looksLikePdf(ResolvedOf(e), Given(e.text), Given(toLowerCase(e.type)))

\* The URLs of the listed elements of the page, by position in the order
\* anchors, citation metadata, link elements; "" where nothing is listed.
ListedUrls ==
    [i \in 1..Len(Elements(pdf.html)) |->
        IF Listed(Elements(pdf.html)[i]) THEN ResolvedOf(Elements(pdf.html)[i]) ELSE ""]

\* Where url is first listed in urls.
FirstAt(urls, url) ==
    CHOOSE i \in DOMAIN urls : urls[i] = url /\ \A j \in DOMAIN urls : urls[j] = url => i <= j

TheScan == pdf.out.scan[1]

\* C29: when no element of the page resolves to a URL ending in .pdf,
\* discovery visits every element of the three sources, its list holds each
\* listed URL once in the order of first appearance, and it returns the first
\* entry of the list, or fails with NotFound when the list is empty.
C29_FirstCandidateAfterFullScan ==
    (Discovered /\ ~ExactOnPage) =>
        LET urls == ListedUrls
            at == {i \in DOMAIN urls : urls[i] # ""}
            list == TheScan.list
        IN  /\ TheScan.visited = Len(urls)
            /\ {list[k] : k \in 1..Len(list)} = {urls[i] : i \in at}
            /\ \A j, k \in 1..Len(list) :
                  j < k => FirstAt(urls, list[j]) < FirstAt(urls, list[k])
            /\ at # {} =>
                  /\ pdf.out.url = list[1]
                  /\ \A i \in at : FirstAt(urls, pdf.out.url) <= i
                  /\ pdf.out.err = ""
            /\ at = {} => (pdf.out.url = "" /\ pdf.out.err = "notFound")

\* A page without an exact match on which a URL is listed twice and the list
\* has entries from an anchor and from another source.
C29_Witness ==
    /\ Discovered /\ ~ExactOnPage
    /\ Len(TheScan.list) = 2
    /\ Cardinality({i \in DOMAIN ListedUrls : ListedUrls[i] # ""}) > 2
    /\ Elements(pdf.html)[FirstAt(ListedUrls, TheScan.list[1])].kind = "a"
    /\ Elements(pdf.html)[FirstAt(ListedUrls, TheScan.list[2])].kind # "a"

\* ------------------------------------------------------------- C30
\* The last four characters of url are a dot and the letters p, d, f, each in
\* either case.
HasPdfSuffix(url) ==
    /\ Len(url) >= 4
    /\ CharAt(url, Len(url) - 3) = "."
    /\ CharAt(url, Len(url) - 2) \in {"p", "P"}
    /\ CharAt(url, Len(url) - 1) \in {"d", "D"}
    /\ CharAt(url, Len(url)) \in {"f", "F"}

\* C30: looksLikePdf returns true for a URL that ends in .pdf in any letter
\* case, whatever its anchor text and MIME type arguments are, given or not.
C30_PdfSuffixLooksLikePdf ==
    (pdf.pc = "looked" /\ HasPdfSuffix(pdf.url)) => pdf.out = TRUE

\* looksLikePdf has returned for a URL ending in upper-case .PDF with both
\* optional arguments left out.
C30_Witness ==
    /\ pdf.pc = "looked"
    /\ endsWith(pdf.url, ".PDF")
    /\ ~pdf.anchorText.given /\ ~pdf.mimeType.given
    /\ pdf.out = TRUE

\* ----- C31
\* The page URL deriveDirectPdfUrl was called with, parsed.
Derived == pdf.pc = "derived"
DerivedFrom == NewURL1(pdf.pageUrl)
DerivedHost == toLowerCase(hostname(DerivedFrom))

\* The rule whose host test the host passes; the four tests exclude one
\* another.
RuleOfHost(host) ==
    IF endsWith(host, "arxiv.org") THEN "archive"
    ELSE IF endsWith(host, "aclanthology.org") THEN "anthology"
    ELSE IF endsWith(host, "openreview.net") THEN "review"
    ELSE IF host = "dl.acm.org" THEN "doi"
    ELSE "none"

\* What each rule makes of the parsed URL u.
ShapedBy(rule, u, out) ==
    CASE rule = "archive" ->
            /\ startsWith(u.pathname, "/abs/")
            /\ startsWith(out, u.origin \o "/pdf/")
            /\ endsWith(out, ".pdf")
      [] rule = "anthology" -> out = u.origin \o NoTrailingSlash(u.pathname) \o ".pdf"
      [] rule = "review" -> out = u.origin \o "/pdf?id=" \o SearchParam(u, "id")
      [] rule = "doi" ->
            /\ includes(u.pathname, "/doi/")
            /\ startsWith(out, u.origin \o "/doi/pdf/")
            /\ endsWith(out, "?download=true")
      [] OTHER -> FALSE

\* C31: deriveDirectPdfUrl returns a URL only for a page whose host passes the
\* host test of one of the four rules (archive, anthology, open review, DOI
\* publisher), the URL is the one that rule builds, and for every other host
\* and for a string that is no URL it returns null; the abstract page
\* https://arxiv.org/abs/2301.00001 gives https://arxiv.org/pdf/2301.00001.pdf.
C31_KnownSiteRules ==
    Derived =>
        /\ ~DerivedFrom.ok => pdf.out = ""
        /\ (DerivedFrom.ok /\ RuleOfHost(DerivedHost) = "none") => pdf.out = ""
        /\ pdf.out # "" => ShapedBy(RuleOfHost(DerivedHost), DerivedFrom, pdf.out)
        /\ pdf.pageUrl = "https://arxiv.org/abs/2301.00001"
              => pdf.out = "https://arxiv.org/pdf/2301.00001.pdf"

C31_Witness ==
    /\ Derived
    /\ pdf.pageUrl = "https://arxiv.org/abs/2301.00001"
    /\ pdf.out = "https://arxiv.org/pdf/2301.00001.pdf"

\* ----- C32
\* A record of a running job for which a cancel request was accepted.
Flagged(job) ==
    job.status = "running" /\ job.cancelRequested /\ job.cancelReason # "null"

\* C32: once a cancel request was accepted for a running job, the record in
\* memory and the persisted record keep cancelRequested and cancelReason for
\* as long as they are that job's and running, across a restart and the
\* resume too, and a further cancel request is answered AlreadyRequested.
C32_CancelFlagsKept ==
    [][/\ (Flagged(store) /\ store'.id = store.id /\ store'.status = "running")
              => Flagged(store')
       /\ (Flagged(bgJob) /\ bgJob'.id = bgJob.id /\ bgJob'.status = "running")
              => (Flagged(bgJob') /\ CancelDecision(bgJob') = MsgAlreadyRequested)
       /\ (LoadAfterGet /\ Flagged(store) /\ bgJob'.status = "running")
              => (Flagged(bgJob') /\ CancelDecision(bgJob') = MsgAlreadyRequested)]_vars

\* ----- C33
\* The element of the page that added url to the candidate list: the first
\* listed one that resolves to it.
AddedBy(url) == Elements(pdf.html)[FirstAt(ListedUrls, url)]

LooksLikePdfAt(url, e) == looksLikePdf(url, Given(e.text), Given(toLowerCase(e.type)))

\* C33: every URL in discovery's candidate list, and the URL discovery
\* returns, passes looksLikePdf with the text and the type of the element
\* that supplied it, be it an anchor, citation metadata or a link element.
C33_CandidatesLookLikePdf ==
    Discovered =>
        /\ \A k \in 1..Len(TheScan.list) :
              LooksLikePdfAt(TheScan.list[k], AddedBy(TheScan.list[k]))
        /\ pdf.out.url # "" =>
              \E i \in 1..Len(Elements(pdf.html)) :
                  /\ Names(Elements(pdf.html)[i])
                  /\ ResolvedOf(Elements(pdf.html)[i]) = pdf.out.url
                  /\ LooksLikePdfAt(pdf.out.url, Elements(pdf.html)[i])

\* ----- C34
\* The summary request returned a text that is a JSON object, and what its
\* summary member holds once trimmed ("" when there is no such member).
JsonShaped == pdf.pc = "summarized" /\ JSONParse(trim(pdf.rawText)).ok
SummaryField ==
    IF JSONParse(trim(pdf.rawText)).key = "summary"
    THEN trim(JSONParse(trim(pdf.rawText)).value)
    ELSE ""

\* C34: when the raw response of the summary request is a JSON object, the
\* summary is the value of its summary member; when that value is blank the
\* step fails with the empty-summary error; the JSON text itself is never
\* the summary.
C34_JsonSummaryField ==
    JsonShaped =>
        /\ SummaryField # "" => (pdf.summary = SummaryField /\ pdf.err = "")
        /\ SummaryField = "" => pdf.err = "summaryFailed"
        /\ pdf.summary # trim(pdf.rawText)

\* ----- C35
\* C35: every job record that is running, in memory, persisted or in a write
\* under way, holds its credential, so loadPersistedJob never takes the
\* branch for a running job without one.
C35_RunningHasCredential ==
    /\ \A rec \in Records : rec.status = "running" => rec.apiKey
    /\ h[LoadTag].pc # "abort"

\* The restarted worker has loaded a running record and resumed it.
C35_Witness ==
    /\ restarts >= 1 /\ h[LoadTag].pc = "commit"
    /\ bgJob.status = "running" /\ bgJob.apiKey
    /\ store.status = "running" /\ store.apiKey

\* ----- C36
\* No record of the orchestrator, in memory, persisted or in a write under
\* way, is a running job.
NoRunningJob == \A rec \in Records : ~Running(rec)

\* The delegate's answers to the start messages of handleStartMessage that are
\* on their way to the orchestrator.
StartAnswers ==
    {i \in 1..Len(toBg) : toBg[i].type = "resp" /\ toBg[i].tag # LoadTag}

\* C36: while the orchestrator has no running job the delegate's job slot is
\* free, and the delegate never answers Busy to the start message of a
\* request the orchestrator has accepted.
C36_NoBusyForAcceptedStart ==
    /\ NoRunningJob => dJob.id = 0
    /\ \A i \in StartAnswers : toBg[i].err # MsgBusy

\* ----- C37
\* The start messages of handleStartMessage on their way to the delegate.
StartsSent == {i \in 1..Len(toOff) : toOff[i].type = "start" /\ toOff[i].tag # LoadTag}

\* C37: the start message sent for job J carries the context of J's own
\* record (the request J was created from, with its credential), whatever
\* was handled while J's start handler was suspended.
C37_StartCarriesOwnContext ==
    \A i \in StartsSent :
        toOff[i].ctx = NewJob(toOff[i].job).ctx /\ toOff[i].apiKey

\* ----- C38
\* Job j is persisted as running and no write under way removes the record
\* or replaces it by another job's.
PersistedRunning(j) ==
    /\ store.id = j /\ store.status = "running"
    /\ \A i \in 1..Len(stq) :
          stq[i].op # "remove" /\ (stq[i].op = "set" => stq[i].val.id = j)

\* C38: when the orchestrator receives a terminal result of the delegate for
\* the job that is persisted as running, handleOffscreenResult takes it up
\* and marks the job with it; the result is not dropped, also not between a
\* restart and the end of the reload.
C38_ResultNotDropped ==
    [][(BgResult /\ PersistedRunning(Head(toBg).job)) =>
           /\ h'[ResultTag].pc \in {"tab", "mark"}
           /\ h'[ResultTag].job = Head(toBg).job
           /\ h'[ResultTag].status = Head(toBg).status]_vars

\* ----- C39
\* C39: a run of the delegate reports at most one terminal outcome, and a run
\* that has ended has reported exactly one.
C39_OneOutcomePerRun ==
    \A r \in RunIds :
        /\ Len(runs[r].reports) <= 1
        /\ runs[r].pc = "done" => Len(runs[r].reports) = 1

\* ----- C40
\* Run r has begun and runSummaryJob has not settled.
RunActive(r) == runs[r].pc \notin {"none", "done"}

\* The step in which run r ends.
RunEnds(r) == RunActive(r) /\ runs'[r].pc = "done"

\* C40: every run the delegate has begun ends; while it lasts the delegate's
\* slot holds its job; the step that ends it frees the slot and resets the
\* cancel flag, and by then the run has reported an outcome and, when a file
\* was uploaded, its delete call has returned.
C40_RunEndsAndFreesSlot ==
    /\ \A r \in RunIds : RunActive(r) ~> (runs[r].pc = "done")
    /\ [](\A r \in RunIds : RunActive(r) => dJob.id = runs[r].job)
    /\ [][\A r \in RunIds :
             RunEnds(r) =>
                 /\ dJob' = NoDJob /\ dCancel' = FALSE
                 /\ runs'[r].reports # <<>>
                 /\ runs'[r].file =>
                       (runs[r].pc # "netDelete" /\ "delete" \in CallsOf(r)')]_vars

\* A cancelled run has ended after its upload: the outcome is reported, the
\* file's delete was called, the slot is free and the flag reset.
C40_Witness ==
    \E r \in RunIds :
        /\ runs[r].pc = "done" /\ runs[r].file
        /\ runs[r].reports = <<"aborted">>
        /\ "delete" \in CallsOf(r)
        /\ dJob = NoDJob /\ ~dCancel

====
